---- MODULE Spec2Model ----
(***************************************************************************)
(* Verification model of the VolleyballLife scraper (vbl_scraper):         *)
(*   - api_scraper.py : URL classification, bracket / pool extraction from *)
(*     the hydrate payload, scan_via_api                                   *)
(*   - cli.py         : scan_urls (API fast path, browser fallback)        *)
(*   - parallel.py    : ParallelScraper.scan_all / _scan_single            *)
(*   - bracket.py, pool.py : the terminal status of a browser scan         *)
(*   - parse_format.py: parse_format_text                                  *)
(*                                                                         *)
(* Python values are represented as follows.  A dict is a TLA+ record      *)
(* whose DOMAIN is the set of keys present (dict.get is Get); the empty    *)
(* dict is <<>>.  A key that is present with a JSON null value is listed   *)
(* in the record's "nulls" field.  Optional[T] is <<>> (None) or <<v>>.    *)
(* Strings are TLA+ strings; lists are sequences.                          *)
(***************************************************************************)
EXTENDS Integers, Sequences, FiniteSets, TLC

VARIABLES
    day,             \* extractor input: one day of the hydrate payload
    pool_id_filter,  \* extractor input: Optional[int]
    extracted,       \* extractor output: Optional[(matches, match_type, type_detail)]
    text,            \* parse_format_text input: the words of the format text
    fmt_result,       \* parse_format_text output: Optional[format dict]
    op,              \* which operation produced the current outputs
    url,             \* scan_via_api input: the URL
    fetch,           \* scan_via_api input: what _fetch_json does
    apiResult,       \* scan_via_api output: Optional[ScanResult]
    phase,           \* position of scan_urls / scan_all
    caller,          \* who awaits scan_all: "none" or "cli"
    p_urls,          \* scan_all: the URL list
    max_concurrent,  \* scan_all: the semaphore's initial value
    hasCreds,        \* "username and password" is truthy
    tasks,           \* scan_all: one scan_with_semaphore task per URL
    parallelResult,  \* scan_all output: Optional[ParallelScanResult]
    urls,            \* scan_urls: the input URL list
    parallel,        \* scan_urls: the --parallel flag
    api_i,           \* _try_api_scan: position of its loop
    remaining_urls,  \* scan_urls: URLs left for the browser fallback
    all_results,     \* scan_urls: the list it returns
    seq_i,           \* scan_urls: position of the sequential loop
    written,         \* _write_results: Optional[the JSON envelope]
    cards,           \* page-only pool scan: what _process_match gives per container
    page_result,     \* page-only pool scan: Optional[ScanResult]
    overlay,         \* _extract_card_data input: what the card overlay shows
    card_match       \* _extract_card_data output: Optional[VBLMatch]

apiVars == <<url, fetch, apiResult>>
pureVars == <<day, pool_id_filter, extracted, text, fmt_result>>
parallelVars == <<p_urls, max_concurrent, hasCreds, tasks, parallelResult>>
cliVars == <<urls, parallel, api_i, remaining_urls, all_results, seq_i, written>>
pageVars == <<cards, page_result, overlay, card_match>>

(***************************************************************************)
(* Python value helpers                                                    *)
(***************************************************************************)
None == <<>>
Some(v) == <<v>>
EmptyDict == <<>>

HasKey(d, k) == k \in DOMAIN d
IsNull(d, k) == HasKey(d, "nulls") /\ k \in d.nulls
Get(d, k, default) == IF HasKey(d, k) THEN d[k] ELSE default

\* the concatenation of a list of lists
RECURSIVE FlattenSeq(_)
FlattenSeq(ss) == IF Len(ss) = 0 THEN <<>> ELSE Head(ss) \o FlattenSeq(Tail(ss))

\* s.find(sub) >= 0
Contains(s, sub) ==
    \E i \in 1..(Len(s) - Len(sub) + 1) : SubSeq(s, i, i + Len(sub) - 1) = sub

EndsWith(s, suffix) ==
    /\ Len(s) >= Len(suffix)
    /\ SubSeq(s, Len(s) - Len(suffix) + 1, Len(s)) = suffix

\* str.lower() on one character
LowerMap ==
    [A |-> "a", B |-> "b", C |-> "c", D |-> "d", E |-> "e", F |-> "f", G |-> "g",
     H |-> "h", I |-> "i", J |-> "j", K |-> "k", L |-> "l", M |-> "m", N |-> "n",
     O |-> "o", P |-> "p", Q |-> "q", R |-> "r", S |-> "s", T |-> "t", U |-> "u",
     V |-> "v", W |-> "w", X |-> "x", Y |-> "y", Z |-> "z"]

LowerChar(c) == IF c \in DOMAIN LowerMap THEN LowerMap[c] ELSE c

RECURSIVE Lower(_)
Lower(s) ==
    IF Len(s) = 0 THEN ""
    ELSE LowerChar(SubSeq(s, 1, 1)) \o Lower(SubSeq(s, 2, Len(s)))

\* the characters \d matches and their values
DigitMap ==
    ("0" :> 0) @@ ("1" :> 1) @@ ("2" :> 2) @@ ("3" :> 3) @@ ("4" :> 4) @@
    ("5" :> 5) @@ ("6" :> 6) @@ ("7" :> 7) @@ ("8" :> 8) @@ ("9" :> 9)

IsDigit(c) == c \in DOMAIN DigitMap
DigitVal(c) == DigitMap[c]

\* number of leading digit characters of s from position i on
RECURSIVE DigitRun(_, _)
DigitRun(s, i) ==
    IF i <= Len(s) /\ IsDigit(SubSeq(s, i, i)) THEN 1 + DigitRun(s, i + 1) ELSE 0

\* int("...") of the digit string s[i .. i+n-1]
RECURSIVE IntOf(_, _, _)
IntOf(s, i, n) ==
    IF n = 0 THEN 0
    ELSE 10 * IntOf(s, i, n - 1) + DigitVal(SubSeq(s, i + n - 1, i + n - 1))

\* re.search(prefix + r'(\d+)', s): the first match's group(1) as an int
SearchId(s, prefix) ==
    LET hits == { i \in 1..(Len(s) - Len(prefix) + 1) :
                      /\ SubSeq(s, i, i + Len(prefix) - 1) = prefix
                      /\ DigitRun(s, i + Len(prefix)) > 0 }
    IN IF hits = {} THEN None
       ELSE LET i == CHOOSE j \in hits : \A k \in hits : j <= k
                p == i + Len(prefix)
            IN Some(IntOf(s, p, DigitRun(s, p)))

(***************************************************************************)
(* api_scraper.py                                                          *)
(***************************************************************************)
VMIX_BASE == "https://api.volleyballlife.com/api/v1.0/matches"

\* parse_vbl_url: Optional[URLParts]
parse_vbl_url(u) ==
    LET tournament_id == SearchId(u, "/event/")
        division_id == SearchId(u, "/division/")
        day_id == SearchId(u, "/round/")
        url_lower == Lower(u)
        is_bracket == Contains(url_lower, "bracket") \/ Contains(url_lower, "playoff")
        is_pool == ~is_bracket /\ Contains(url_lower, "pool")
        pool_id == IF is_pool THEN SearchId(u, "/pools/") ELSE None
    IN  \* "if not parts.division_id": None and 0 are both falsy
        IF division_id = None \/ division_id = Some(0) THEN None
        ELSE Some([tournament_id |-> tournament_id,
                   division_id |-> division_id,
                   day_id |-> day_id,
                   is_bracket |-> is_bracket,
                   is_pool |-> is_pool,
                   pool_id |-> pool_id])

SetsToWinOf_NoHalving(n) == IF n > 0 THEN n ELSE 1

\* sets_to_win from the number of listed games (lines 220-224 / 334-336)
SetsToWinOf(n) ==
    LET s == IF n > 0 THEN n ELSE 1
    IN IF s > 1 THEN (s + 1) \div 2 ELSE s

\* point_cap = first_game.get('cap'); 0 becomes None
PointCapOf(first_game) ==
    IF HasKey(first_game, "cap") /\ first_game.cap # 0
    THEN Some(first_game.cap) ELSE None

\* the scoring format a list of game settings resolves to
FormatOf(game_settings) ==
    LET first_game == IF Len(game_settings) > 0 THEN game_settings[1] ELSE EmptyDict
    IN [sets_to_win |-> SetsToWinOf(Len(game_settings)),
        points_per_set |-> Get(first_game, "to", 21),
        point_cap |-> PointCapOf(first_game)]

\* one entry of parts in _build_format_text; an absent, null or zero cap is
\* falsy
FormatPart(gs) ==
    IF Get(gs, "cap", 0) > 0
    THEN "to " \o ToString(Get(gs, "to", 0)) \o " with a "
         \o ToString(gs.cap) \o " point cap"
    ELSE "to " \o ToString(Get(gs, "to", 0)) \o " with no cap"

\* ", ".join(f"set {i+1} {p}" for i, p in enumerate(parts)) from entry i on
RECURSIVE JoinSets(_, _)
JoinSets(parts, i) ==
    IF i > Len(parts) THEN ""
    ELSE (IF i > 1 THEN ", " ELSE "") \o "set " \o ToString(i) \o " " \o parts[i]
         \o JoinSets(parts, i + 1)

\* _build_format_text
_build_format_text(game_settings, num_games) ==
    IF Len(game_settings) = 0 THEN ""
    ELSE LET parts == [i \in 1..Len(game_settings) |-> FormatPart(game_settings[i])]
         IN IF num_games = 1 THEN "1 set " \o parts[1]
            ELSE IF \A i \in 1..Len(parts) : parts[i] = parts[1]
            THEN "Best of " \o ToString(num_games) \o ", all sets " \o parts[1]
            ELSE "Best of " \o ToString(num_games) \o ": " \o JoinSets(parts, 1)

\* "[{'to': g.get('to', 21), 'cap': g.get('cap')} for g in games]"; a null
\* cap is written 0, which FormatPart treats alike
PoolGameSettings(games) ==
    [i \in 1..Len(games) |-> [to |-> Get(games[i], "to", 21),
                              cap |-> Get(games[i], "cap", 0)]]

\* _build_team_lookup: teamId -> team info, for the teams with a truthy id
_build_team_lookup(division_data) ==
    LET teams == Get(division_data, "teams", <<>>)
        ids == { Get(teams[i], "id", 0) : i \in 1..Len(teams) } \ {0}
        \* a later team with the same id overwrites an earlier one
        Last(id) == CHOOSE i \in 1..Len(teams) :
                        /\ Get(teams[i], "id", 0) = id
                        /\ \A j \in 1..Len(teams) : Get(teams[j], "id", 0) = id => j <= i
    IN [id \in ids |-> [name |-> Get(teams[Last(id)], "name", "Unknown")]]

\* _format_team_name: Optional[str] from Optional[team info]
_format_team_name(team_info) ==
    IF team_info = None THEN None
    ELSE IF Get(team_info[1], "name", "") = "" THEN None
    ELSE Some(team_info[1].name)

\* "side.get('teamId') if side else None" on match[key] (absent: None)
SideTeamId(match, key) ==
    IF HasKey(match, key) /\ HasKey(match[key], "teamId")
    THEN Some(match[key].teamId) ELSE None

\* "team_lookup.get(team_id) if team_id else None"
SideInfo(team_lookup, team_id) ==
    IF team_id # None /\ team_id # Some(0) /\ team_id[1] \in DOMAIN team_lookup
    THEN Some(team_lookup[team_id[1]]) ELSE None

\* team1_name of a bracket or pool match
Team1Name(match, team_lookup) ==
    _format_team_name(SideInfo(team_lookup, SideTeamId(match, "homeTeam")))

\* team2_name of a pool match
Team2Name(match, team_lookup) ==
    _format_team_name(SideInfo(team_lookup, SideTeamId(match, "awayTeam")))

\* team2_name of a bracket match: str(match['awayMap']) stands in for a
\* missing name when awayMap is truthy
BracketTeam2Name(match, team_lookup) ==
    IF Team2Name(match, team_lookup) = None /\ Get(match, "awayMap", "") # ""
    THEN Some(match.awayMap)
    ELSE Team2Name(match, team_lookup)

\* iso_time.replace('Z', '+00:00')
RECURSIVE ReplaceZ(_)
ReplaceZ(s) ==
    IF Len(s) = 0 THEN ""
    ELSE (IF SubSeq(s, 1, 1) = "Z" THEN "+00:00" ELSE SubSeq(s, 1, 1))
         \o ReplaceZ(SubSeq(s, 2, Len(s)))

\* the n-digit decimal field of s at position i; None when it is not there
Field(s, i, n) ==
    IF i + n - 1 <= Len(s) /\ DigitRun(SubSeq(s, i, i + n - 1), 1) = n
    THEN Some(IntOf(s, i, n)) ELSE None

IsLeap(y) == y % 4 = 0 /\ (y % 100 # 0 \/ y % 400 = 0)

DaysInMonth(y, m) ==
    IF m = 2 THEN (IF IsLeap(y) THEN 29 ELSE 28)
    ELSE IF m \in {4, 6, 9, 11} THEN 30 ELSE 31

\* the hours and minutes of a UTC offset are in range
OffsetInRange(hh, mm) ==
    /\ hh # None /\ mm # None
    /\ hh[1] < 24 /\ mm[1] < 60

\* a "+HH:MM" / "-HH:MM" UTC offset
IsOffset(s) ==
    /\ Len(s) = 6
    /\ SubSeq(s, 1, 1) \in {"+", "-"}
    /\ SubSeq(s, 4, 4) = ":"
    /\ OffsetInRange(Field(s, 2, 2), Field(s, 5, 2))

\* what follows the time of day in s: HH:MM, HH:MM:SS or HH:MM:SS.f...
TimeRest(s) ==
    LET withSec == Len(s) >= 19 /\ SubSeq(s, 17, 17) = ":"
        hasFrac == withSec /\ Len(s) >= 20 /\ SubSeq(s, 20, 20) = "."
        timeEnd == IF withSec
                   THEN (IF hasFrac THEN 20 + DigitRun(s, 21) ELSE 19)
                   ELSE 16
    IN SubSeq(s, timeEnd + 1, Len(s))

\* the datetime of the fields read from s; None is the ValueError
ParseIso(s, y, mo, d, h, mi, sec, rest) ==
    LET dateOk == /\ Len(s) >= 10
                  /\ SubSeq(s, 5, 5) = "-" /\ SubSeq(s, 8, 8) = "-"
                  /\ y # None /\ mo # None /\ d # None
                  /\ y[1] >= 1 /\ mo[1] \in 1..12
                  /\ d[1] \in 1..DaysInMonth(y[1], mo[1])
        withSec == Len(s) >= 19 /\ SubSeq(s, 17, 17) = ":"
        timeOk == /\ Len(s) >= 16
                  /\ SubSeq(s, 14, 14) = ":"
                  /\ h # None /\ mi # None
                  /\ h[1] < 24 /\ mi[1] < 60
                  /\ withSec => (sec # None /\ sec[1] < 60)
                  /\ rest = "" \/ IsOffset(rest)
    IN IF ~dateOk THEN None
       ELSE IF Len(s) = 10
            THEN Some([year |-> y[1], month |-> mo[1], day |-> d[1],
                       hour |-> 0, minute |-> 0])
       ELSE IF timeOk
            THEN Some([year |-> y[1], month |-> mo[1], day |-> d[1],
                       hour |-> h[1], minute |-> mi[1]])
       ELSE None

\* datetime.fromisoformat on the forms YYYY-MM-DD, YYYY-MM-DD?HH:MM and
\* YYYY-MM-DD?HH:MM:SS[.f...], the last two with an optional UTC offset
fromisoformat(s) ==
    ParseIso(s, Field(s, 1, 4), Field(s, 6, 2), Field(s, 9, 2),
             Field(s, 12, 2), Field(s, 15, 2), Field(s, 18, 2), TimeRest(s))

\* f"{minute:02d}"
TwoDigits(n) == IF n < 10 THEN "0" \o ToString(n) ELSE ToString(n)

\* match.get('startTime'): None when the key is absent or null
StartTimeOf(match) ==
    IF HasKey(match, "startTime") THEN Some(match.startTime) ELSE None

FormatClock_NoonAsZero(dt) ==
    IF dt = None THEN None
    ELSE LET ampm == IF dt[1].hour < 12 THEN "AM" ELSE "PM"
             hour == IF dt[1].hour = 0 THEN 12
                     ELSE IF dt[1].hour >= 12 THEN dt[1].hour - 12
                     ELSE dt[1].hour
         IN Some(ToString(hour) \o ":" \o TwoDigits(dt[1].minute) \o ampm)

\* the body of _format_time's try block; dt = None is the caught ValueError
FormatClock(dt) ==
    IF dt = None THEN None
    ELSE LET ampm == IF dt[1].hour < 12 THEN "AM" ELSE "PM"
             hour == IF dt[1].hour = 0 THEN 12
                     ELSE IF dt[1].hour > 12 THEN dt[1].hour - 12
                     ELSE dt[1].hour
         IN Some(ToString(hour) \o ":" \o TwoDigits(dt[1].minute) \o ampm)

\* _format_time: Optional[str] from Optional[str]
_format_time(iso_time) ==
    IF iso_time = None \/ iso_time = Some("") THEN None
    ELSE FormatClock(fromisoformat(ReplaceZ(iso_time[1])))

\* dt.strftime('%a'): the day of the week of a proleptic Gregorian date
WeekdayName(y, m, d) ==
    LET t == <<0, 3, 2, 5, 0, 3, 5, 1, 4, 6, 2, 4>>
        yy == IF m < 3 THEN y - 1 ELSE y
        dow == (yy + (yy \div 4) - (yy \div 100) + (yy \div 400) + t[m] + d) % 7
    IN <<"Sun", "Mon", "Tue", "Wed", "Thu", "Fri", "Sat">>[dow + 1]

\* the body of _format_date's try block
FormatWeekday(dt) ==
    IF dt = None THEN None
    ELSE Some(WeekdayName(dt[1].year, dt[1].month, dt[1].day))

\* _format_date: Optional[str] from Optional[str]
_format_date(iso_time) ==
    IF iso_time = None \/ iso_time = Some("") THEN None
    ELSE FormatWeekday(fromisoformat(ReplaceZ(iso_time[1])))

BracketApiUrl(match_id) == VMIX_BASE \o "/" \o ToString(match_id) \o "/vmix?bracket=true"
PoolApiUrl_AsBracket(match_id) == BracketApiUrl(match_id)
PoolApiUrl(match_id) == VMIX_BASE \o "/" \o ToString(match_id) \o "/vmix?bracket=false"

BracketSkip_NoBye(match) == Get(match, "id", 0) = 0

\* "if match_id == 0 or match.get('isBye', False): continue"
BracketSkip(match) == Get(match, "id", 0) = 0 \/ Get(match, "isBye", FALSE)

\* "if match_id == 0: continue"
PoolSkip(match) == Get(match, "id", 0) = 0

\* type_detail of one bracket (lines 207-215)
BracketTypeDetail(bracket) ==
    LET bracket_name == Get(bracket, "name", "Bracket")
        bracket_type == Lower(Get(bracket, "type", ""))
    IN IF Contains(bracket_type, "single") THEN "Single Elim"
       ELSE IF Contains(bracket_type, "double") THEN "Double Elim"
       ELSE bracket_name

\* the "for idx, match in enumerate(bracket.get('matches', []))" loop
RECURSIVE BracketMatchLoop(_, _, _, _, _, _)
BracketMatchLoop(ms, idx, fmt, type_detail, team_lookup, acc) ==
    IF idx >= Len(ms) THEN acc
    ELSE LET match == ms[idx + 1]
             match_id == Get(match, "id", 0)
         IN IF BracketSkip(match)
            THEN BracketMatchLoop(ms, idx + 1, fmt, type_detail, team_lookup, acc)
            ELSE BracketMatchLoop(ms, idx + 1, fmt, type_detail, team_lookup,
                    Append(acc, [index |-> idx,
                                 team1 |-> Team1Name(match, team_lookup),
                                 team2 |-> BracketTeam2Name(match, team_lookup),
                                 start_time |-> _format_time(StartTimeOf(match)),
                                 start_date |-> _format_date(StartTimeOf(match)),
                                 api_url |-> BracketApiUrl(match_id),
                                 match_type |-> "Bracket Play",
                                 type_detail |-> type_detail,
                                 sets_to_win |-> fmt.sets_to_win,
                                 points_per_set |-> fmt.points_per_set,
                                 point_cap |-> fmt.point_cap,
                                 format_text |-> fmt.format_text]))

\* the "for bracket in day.get('brackets', [])" loop; raised models the
\* AttributeError of bracket.get('type', '').lower() on a null type
RECURSIVE BracketLoop(_, _, _, _)
BracketLoop(bs, i, team_lookup, acc) ==
    IF i > Len(bs) THEN acc
    ELSE LET bracket == bs[i]
         IN IF IsNull(bracket, "type")
            THEN [raised |-> TRUE, matches |-> <<>>,
                  match_type |-> "Bracket Play", type_detail |-> ""]
            ELSE LET td == BracketTypeDetail(bracket)
                     ws == Get(bracket, "winnersMatchSettings", EmptyDict)
                     game_settings == Get(ws, "gameSettings", <<>>)
                     fmt == FormatOf(game_settings)
                            @@ [format_text |-> _build_format_text(game_settings,
                                                                  Len(game_settings))]
                 IN BracketLoop(bs, i + 1, team_lookup,
                        [raised |-> FALSE,
                         matches |-> BracketMatchLoop(Get(bracket, "matches", <<>>),
                                                      0, fmt, td, team_lookup,
                                                      acc.matches),
                         match_type |-> "Bracket Play",
                         type_detail |-> td])

_extract_bracket_matches(d, team_lookup) ==
    BracketLoop(Get(d, "brackets", <<>>), 1, team_lookup,
                [raised |-> FALSE, matches |-> <<>>,
                 match_type |-> "Bracket Play", type_detail |-> ""])

\* "if pool_id_filter and pid != pool_id_filter: continue"
PoolFiltered(pool, filter) ==
    /\ filter # None
    /\ filter # Some(0)
    /\ Some(Get(pool, "id", 0)) # filter

\* the "for match in pool.get('matches', [])" loop; acc.idx is the running idx
RECURSIVE PoolMatchLoop(_, _, _, _, _)
PoolMatchLoop(ms, k, type_detail, team_lookup, acc) ==
    IF k > Len(ms) THEN acc
    ELSE LET match == ms[k]
             match_id == Get(match, "id", 0)
             games == Get(match, "games", <<>>)
             fmt == FormatOf(games)
                    @@ [format_text |-> _build_format_text(PoolGameSettings(games),
                                                          Len(games))]
         IN IF PoolSkip(match)
            THEN PoolMatchLoop(ms, k + 1, type_detail, team_lookup, acc)
            ELSE PoolMatchLoop(ms, k + 1, type_detail, team_lookup,
                    [acc EXCEPT
                       !.idx = @ + 1,
                       !.matches = Append(@, [index |-> acc.idx,
                                              team1 |-> Team1Name(match, team_lookup),
                                              team2 |-> Team2Name(match, team_lookup),
                                              start_time |-> _format_time(StartTimeOf(match)),
                                              start_date |-> _format_date(StartTimeOf(match)),
                                              api_url |-> PoolApiUrl(match_id),
                                              match_type |-> "Pool Play",
                                              type_detail |-> type_detail,
                                              sets_to_win |-> fmt.sets_to_win,
                                              points_per_set |-> fmt.points_per_set,
                                              point_cap |-> fmt.point_cap,
                                              format_text |-> fmt.format_text])])

\* the "for pool in flight.get('pools', [])" loop
RECURSIVE PoolLoop(_, _, _, _, _)
PoolLoop(ps, j, filter, team_lookup, acc) ==
    IF j > Len(ps) THEN acc
    ELSE LET pool == ps[j]
         IN IF PoolFiltered(pool, filter)
            THEN PoolLoop(ps, j + 1, filter, team_lookup, acc)
            ELSE LET td == "Pool " \o Get(pool, "name", "?")
                 IN PoolLoop(ps, j + 1, filter, team_lookup,
                        PoolMatchLoop(Get(pool, "matches", <<>>), 1, td, team_lookup,
                                      [acc EXCEPT !.type_detail = td]))

\* the "for flight in day.get('flights', [])" loop
RECURSIVE FlightLoop(_, _, _, _, _)
FlightLoop(fs, i, filter, team_lookup, acc) ==
    IF i > Len(fs) THEN acc
    ELSE FlightLoop(fs, i + 1, filter, team_lookup,
                    PoolLoop(Get(fs[i], "pools", <<>>), 1, filter, team_lookup, acc))

_extract_pool_matches(d, team_lookup, filter) ==
    LET r == FlightLoop(Get(d, "flights", <<>>), 1, filter, team_lookup,
                        [idx |-> 0, matches |-> <<>>, type_detail |-> ""])
    IN [raised |-> FALSE, matches |-> r.matches,
        match_type |-> "Pool Play", type_detail |-> r.type_detail]

Reindex_Skipped(all_matches) == all_matches

\* "for i, m in enumerate(all_matches): m.index = i"
Reindex(all_matches) ==
    [i \in 1..Len(all_matches) |-> [all_matches[i] EXCEPT !.index = i - 1]]

\* "if parts.day_id and day_id != parts.day_id: continue"
DaySkipped(d, parts) ==
    /\ parts.day_id # None
    /\ parts.day_id # Some(0)
    /\ (IF HasKey(d, "id") THEN Some(d.id) ELSE None) # parts.day_id

\* all_matches.extend(matches) and the "if mt:" / "if td:" updates
Extend(acc, r) ==
    [raised |-> r.raised,
     matches |-> acc.matches \o r.matches,
     match_type |-> IF r.match_type # "" THEN r.match_type ELSE acc.match_type,
     type_detail |-> IF r.type_detail # "" THEN r.type_detail ELSE acc.type_detail]

\* the pool half of one iteration, after the bracket half left acc1
ScanDayPools(d, parts, team_lookup, acc1) ==
    IF acc1.raised \/ ~(parts.is_pool \/ Get(d, "poolPlay", FALSE)) THEN acc1
    ELSE Extend(acc1, _extract_pool_matches(d, team_lookup, parts.pool_id))

\* one iteration of "for day in data.get('days', [])" (lines 413-436)
ScanDay(d, parts, team_lookup, acc) ==
    IF acc.raised \/ DaySkipped(d, parts) THEN acc
    ELSE ScanDayPools(d, parts, team_lookup,
                      IF parts.is_bracket \/ Get(d, "bracketPlay", FALSE)
                      THEN Extend(acc, _extract_bracket_matches(d, team_lookup))
                      ELSE acc)

RECURSIVE DayLoop(_, _, _, _, _)
DayLoop(ds, i, parts, team_lookup, acc) ==
    IF i > Len(ds) THEN acc
    ELSE DayLoop(ds, i + 1, parts, team_lookup,
                 ScanDay(ds[i], parts, team_lookup, acc))

\* scan_via_api without its "if not all_matches: return None"
scan_via_api_EmptySuccess(u, f) ==
    LET parsed == parse_vbl_url(u)
    IN IF parsed = None THEN None
       ELSE IF f.raises THEN None
       ELSE LET r == DayLoop(Get(f.data, "days", <<>>), 1, parsed[1],
                             _build_team_lookup(f.data),
                             [raised |-> FALSE, matches |-> <<>>,
                              match_type |-> "", type_detail |-> ""])
            IN IF r.raised THEN None
               ELSE Some([url |-> u,
                          matches |-> Reindex(r.matches),
                          status |-> "success",
                          error |-> None,
                          match_type |-> r.match_type,
                          type_detail |-> r.type_detail])

\* scan_via_api: Optional[ScanResult]; f is the outcome of _fetch_json
scan_via_api(u, f) ==
    LET parsed == parse_vbl_url(u)
    IN IF parsed = None THEN None
       ELSE IF f.raises THEN None
       ELSE LET parts == parsed[1]
                r == DayLoop(Get(f.data, "days", <<>>), 1, parts,
                             _build_team_lookup(f.data),
                             [raised |-> FALSE, matches |-> <<>>,
                              match_type |-> "", type_detail |-> ""])
                all_matches == Reindex(r.matches)
            IN IF r.raised THEN None
               ELSE IF Len(all_matches) = 0 THEN None
               ELSE Some([url |-> u,
                          matches |-> all_matches,
                          status |-> "success",
                          error |-> None,
                          match_type |-> r.match_type,
                          type_detail |-> r.type_detail])

(***************************************************************************)
(* Inputs of the extractors: days of the hydrate payload                   *)
(***************************************************************************)
MaxMatches == 2      \* matches listed by one bracket or one pool
MaxMatchId == 2      \* match ids range over 0..MaxMatchId
MaxGames == 3        \* game settings listed by one bracket

SeqsUpTo(S, n) == UNION { [1..k -> S] : k \in 0..n }

\* raw bracket matches: id missing, id 0, real ids, a bye, an explicit non-bye
BracketMatchShapes ==
    {[number |-> 7]}
    \cup {[id |-> i, number |-> 7] : i \in 0..MaxMatchId}
    \cup {[id |-> 1, number |-> 7, isBye |-> TRUE],
          [id |-> 2, number |-> 7, isBye |-> FALSE]}

GameSettingShapes == {[to |-> 21, cap |-> 0], [to |-> 15, cap |-> 17], [cap |-> 23]}

BestOf3 == <<[to |-> 21, cap |-> 0], [to |-> 21, cap |-> 0], [to |-> 15, cap |-> 0]>>

\* the i-th bracket of a day
BracketAt(i, ms) ==
    IF i = 1
    THEN [name |-> "Gold", type |-> "SINGLE_ELIM", matches |-> ms,
          winnersMatchSettings |-> [gameSettings |-> <<[to |-> 28, cap |-> 30]>>]]
    ELSE [name |-> "Silver", type |-> "Consolation", matches |-> ms,
          winnersMatchSettings |-> [gameSettings |-> BestOf3]]

BracketDays ==
    LET lists == SeqsUpTo(BracketMatchShapes, MaxMatches)
    IN {[id |-> 1, bracketPlay |-> TRUE]}
       \cup {[id |-> 1, brackets |-> <<BracketAt(1, a)>>] : a \in lists}
       \cup {[id |-> 1, brackets |-> <<BracketAt(1, a), BracketAt(2, b)>>] :
                a \in lists, b \in SeqsUpTo(BracketMatchShapes, 1)}

\* one bracket whose scoring settings vary; its second match lists games of
\* its own
FormatDays ==
    {[id |-> 1,
      brackets |-> <<[name |-> "Gold", type |-> "Double Elimination",
                      matches |-> <<[id |-> 1, number |-> 7],
                                    [id |-> 2, number |-> 8, games |-> BestOf3]>>,
                      winnersMatchSettings |-> [gameSettings |-> gs]]>>] :
        gs \in SeqsUpTo(GameSettingShapes, MaxGames)}
    \cup {[id |-> 1,
           brackets |-> <<[name |-> "Gold", matches |-> <<[id |-> 1, number |-> 7]>>]>>]}

\* the teams of the division: a named team, a team with an empty name, a team
\* without a name, and a team whose id is 0
DivisionTeams ==
    <<[id |-> 5, name |-> "Ann A / Bo B"], [id |-> 6, name |-> ""],
      [id |-> 7], [id |-> 0, name |-> "Zero"]>>

Directory == _build_team_lookup([teams |-> DivisionTeams])

\* a side of a match: a team of the directory, a team that is not in it, a
\* team with an empty name, a side without a teamId
SideShapes == {[teamId |-> 5, seed |-> 1], [teamId |-> 9], [teamId |-> 6],
               [teamId |-> 7], [seed |-> 2]}

\* raw bracket matches whose sides and advancement placeholder vary
TeamMatchShapes ==
    LET base == [id |-> 1, number |-> 7]
        homes == {base} \cup {base @@ ("homeTeam" :> h) : h \in SideShapes}
        aways == homes \cup {m @@ ("awayTeam" :> a) : m \in homes, a \in SideShapes}
    IN aways \cup {m @@ ("awayMap" :> "Match 2 Winner") : m \in aways}

TeamDays == {[id |-> 1, brackets |-> <<BracketAt(1, <<m>>)>>] : m \in TeamMatchShapes}

\* the timestamp of hour h and minute m of a January day of 2026
Stamp(d, h, m) == "2026-01-" \o TwoDigits(d) \o "T" \o TwoDigits(h) \o ":"
                  \o TwoDigits(m) \o ":00"

StampHours == 0..23
StampMinutes == {0, 5, 30, 59}
StampTails == {"", "Z", ".000Z"}

\* timestamps as the API sends them: local, UTC ("Z"), with milliseconds,
\* with an offset, without seconds, and a bare date
ValidStamps ==
    {Stamp(9, h, m) \o z : h \in StampHours, m \in StampMinutes, z \in StampTails}
    \cup {Stamp(10, 9, 0) \o "-05:00", "2026-01-11T18:45", "2024-02-29"}

\* strings that are no timestamp
InvalidStamps ==
    {"", "TBD", "9:00AM", "2026-01-09T24:00:00", "2026-01-09T09:60:00",
     "2026-13-09T09:00:00", "2026-02-29T09:00:00", "2026-01-09T09:00:00ZZ",
     "2026/01/09 09:00:00"}

\* raw matches whose startTime varies: valid, invalid, absent, null
TimeMatchShapes ==
    {[id |-> 1, number |-> 7, startTime |-> s] : s \in ValidStamps \cup InvalidStamps}
    \cup {[id |-> 1, number |-> 7], [id |-> 1, number |-> 7, nulls |-> {"startTime"}]}

TimeDays ==
    {[id |-> 1, brackets |-> <<BracketAt(1, <<m>>)>>,
      flights |-> <<[pools |-> <<[id |-> 1, name |-> "A", matches |-> <<m>>]>>]>>] :
        m \in TimeMatchShapes}

\* raw pool matches: id missing, id 0, real ids (id i lists i games to 20 + i)
PoolMatchShapes ==
    {[number |-> 7]}
    \cup {[id |-> i, number |-> 7, games |-> [k \in 1..i |-> [to |-> 20 + i, cap |-> 0]]] :
             i \in 0..MaxMatchId}

PoolA(ms) == [id |-> 1, name |-> "A", matches |-> ms]
PoolB(ms) == [id |-> 2, name |-> "B", matches |-> ms]

PoolDays ==
    LET lists == SeqsUpTo(PoolMatchShapes, MaxMatches)
    IN {[id |-> 1, poolPlay |-> TRUE]}
       \cup {[id |-> 1, flights |-> <<[pools |-> <<PoolA(a)>>]>>] : a \in lists}
       \cup {[id |-> 1, flights |-> <<[pools |-> <<PoolA(a), PoolB(b)>>]>>] :
                a \in lists, b \in SeqsUpTo(PoolMatchShapes, 1)}
       \cup {[id |-> 1, flights |-> <<[pools |-> <<PoolA(a)>>], [pools |-> <<PoolB(b)>>]>>] :
                a \in lists, b \in SeqsUpTo(PoolMatchShapes, 1)}

PoolIdFilters == {None} \cup {Some(i) : i \in 0..3}

(***************************************************************************)
(* Inputs of scan_via_api: URLs and what the hydrate fetch does            *)
(***************************************************************************)
MaxDays == 2         \* days in one hydrate payload; day i has id i

ApiUrls ==
    {"/event/7/brackets", "/event/7/division/0/round/1/brackets",
     "/event/7/division//pools/1", "/event/7/division/3/PlayOffs",
     "/event/7/division/3/bracket/pools/2"}
    \cup {"/event/7/division/3" \o rd \o tail :
             rd \in {""} \cup {"/round/" \o ToString(d) : d \in 0..MaxDays},
             tail \in {"", "/brackets", "/pools", "/Pools/1"}
                      \cup {"/pools/" \o ToString(p) : p \in 0..2}}

NullTypeBracket ==
    [name |-> "Gold", nulls |-> {"type"}, matches |-> <<[id |-> 9, number |-> 7]>>]

ApiBrackets ==
    <<BracketAt(1, <<[id |-> 1, number |-> 7, isBye |-> TRUE],
                     [id |-> 11, number |-> 7],
                     [id |-> 0, number |-> 7],
                     [id |-> 12, number |-> 7]>>),
      BracketAt(2, <<[id |-> 13, number |-> 7]>>)>>

ApiFlights ==
    <<[pools |-> <<PoolA(<<[id |-> 21, number |-> 7, games |-> BestOf3],
                           [number |-> 7],
                           [id |-> 22, number |-> 7, games |-> BestOf3]>>),
                   PoolB(<<[id |-> 23, number |-> 7]>>)>>]>>

\* what a day may hold with its (bracketPlay, poolPlay) flags: brackets and
\* pools, brackets only, pools only, or a malformed bracket and pools
ApiDayKinds ==
    LET both == [brackets |-> ApiBrackets, flights |-> ApiFlights]
        broken == [brackets |-> <<NullTypeBracket>>, flights |-> ApiFlights]
    IN {[body |-> both, flags |-> <<FALSE, FALSE>>],
        [body |-> both, flags |-> <<TRUE, TRUE>>],
        [body |-> [brackets |-> ApiBrackets, flights |-> <<>>], flags |-> <<FALSE, TRUE>>],
        [body |-> [brackets |-> <<>>, flights |-> ApiFlights], flags |-> <<TRUE, TRUE>>],
        [body |-> broken, flags |-> <<FALSE, TRUE>>],
        [body |-> broken, flags |-> <<TRUE, TRUE>>]}

ApiDay(i, body, bp, pp) ==
    [id |-> i, bracketPlay |-> bp, poolPlay |-> pp,
     brackets |-> body.brackets, flights |-> body.flights]

ApiDayLists ==
    UNION { { [i \in 1..k |-> ApiDay(i, c[i].body, c[i].flags[1], c[i].flags[2])] :
                c \in [1..k -> ApiDayKinds] } :
            k \in 0..MaxDays }

Fetches ==
    {[raises |-> TRUE, data |-> [days |-> <<>>]]}
    \cup {[raises |-> FALSE, data |-> [days |-> ds]] : ds \in ApiDayLists}

\* values of the variables an operation does not use
NoDay == [id |-> 0]
NoFetch == [raises |-> TRUE, data |-> [days |-> <<>>]]

(***************************************************************************)
(* core.py, bracket.py, pool.py: the terminal state of a browser scan      *)
(***************************************************************************)
\* the digits of re.search(r'/pools/(\d+)', url_lower).group(1), or None
PoolNumText(url_lower) ==
    LET prefix == "/pools/"
        hits == { i \in 1..(Len(url_lower) - Len(prefix) + 1) :
                      /\ SubSeq(url_lower, i, i + Len(prefix) - 1) = prefix
                      /\ DigitRun(url_lower, i + Len(prefix)) > 0 }
    IN IF hits = {} THEN None
       ELSE LET i == CHOOSE j \in hits : \A k \in hits : j <= k
                q == i + Len(prefix)
            IN Some(SubSeq(url_lower, q, q + DigitRun(url_lower, q) - 1))

\* VBLScraperBase.determine_url_type: <<match_type, type_detail>>
determine_url_type(u) ==
    LET url_lower == Lower(u)
    IN IF Contains(url_lower, "/pools/")
       THEN <<"Pool Play",
              "Pool " \o (IF PoolNumText(url_lower) = None THEN "Unknown"
                          ELSE PoolNumText(url_lower)[1])>>
       ELSE IF Contains(url_lower, "/brackets/")
       THEN IF Contains(url_lower, "contenders") THEN <<"Bracket Play", "Contenders Bracket">>
            ELSE IF Contains(url_lower, "winners") THEN <<"Bracket Play", "Winners Bracket">>
            ELSE <<"Bracket Play", "Main Bracket">>
       ELSE <<"Bracket Play", "Main Bracket">>

\* ScanResult(url=url) with match_type / type_detail set (scan, first lines)
NewScanResult(u) ==
    [url |-> u, matches |-> <<>>, status |-> "pending", error |-> None,
     match_type |-> determine_url_type(u)[1],
     type_detail |-> determine_url_type(u)[2]]

\* what the page does during one browser scan:
\*   page       "goto_raises" | "open" | "login_ok" | "login_fails"
\*   containers number of match containers found on the page
\*   good       number of containers that yield a match
BrowserEnvs ==
    {[page |-> "goto_raises", containers |-> 0, good |-> 0],
     [page |-> "login_fails", containers |-> 0, good |-> 0],
     [page |-> "login_ok", containers |-> 2, good |-> 2],
     [page |-> "open", containers |-> 0, good |-> 0],
     [page |-> "open", containers |-> 2, good |-> 0],
     [page |-> "open", containers |-> 2, good |-> 2]}

\* VBLMatch(index=index): the dataclass of core.py with its defaults
VBLMatch(index) ==
    [index |-> index, match_number |-> None, team1 |-> None, team2 |-> None,
     team1_seed |-> None, team2_seed |-> None, court |-> None,
     start_time |-> None, api_url |-> None, match_type |-> None,
     type_detail |-> None]

\* VBLMatch.to_dict
to_dict(m) ==
    [index |-> m.index,
     match_number |-> m.match_number,
     team1 |-> m.team1,
     team2 |-> m.team2,
     team1_seed |-> m.team1_seed,
     team2_seed |-> m.team2_seed,
     court |-> m.court,
     startTime |-> m.start_time,
     api_url |-> m.api_url,
     match_type |-> m.match_type,
     type_detail |-> m.type_detail]

\* the records a page scan leaves: "match = VBLMatch(index=index)"
BrowserMatches(n) == [i \in 1..n |-> VBLMatch(i - 1)]

\* the login branch shared by BracketScraper.scan and PoolScraper.scan:
\* the error it returns, or None when the scan goes on
LoginError(env, creds) ==
    IF env.page \in {"login_ok", "login_fails"}
    THEN IF ~creds THEN Some("Login required but no credentials provided")
         ELSE IF env.page = "login_fails" THEN Some("Login failed")
         ELSE None
    ELSE None

\* BracketScraper.scan
BracketScraper_scan(u, env, creds) ==
    LET result == NewScanResult(u)
    IN IF env.page = "goto_raises"
       THEN [result EXCEPT !.status = "error", !.error = Some("goto failed")]
       ELSE IF LoginError(env, creds) # None
       THEN [result EXCEPT !.status = "error", !.error = LoginError(env, creds)]
       ELSE IF env.containers = 0
       THEN [result EXCEPT !.status = "success",
                           !.error = Some("No matches found on page")]
       ELSE [result EXCEPT !.status = "success",
                           !.matches = BrowserMatches(env.good)]

\* PoolScraper.scan
PoolScraper_scan(u, env, creds) ==
    LET result == NewScanResult(u)
    IN IF env.page = "goto_raises"
       THEN [result EXCEPT !.status = "error", !.error = Some("goto failed")]
       ELSE IF LoginError(env, creds) # None
       THEN [result EXCEPT !.status = "error", !.error = LoginError(env, creds)]
       ELSE [result EXCEPT !.status = "success",
                           !.matches = BrowserMatches(env.good)]

(***************************************************************************)
(* Inputs of scan_all and scan_urls                                        *)
(***************************************************************************)
MaxUrls == 3         \* URLs given to one scan_all / scan_urls call
MaxConcurrent == 2   \* largest semaphore value

\* the i-th URL of a call: a bracket page, a pool page, a page without division
UrlAt(i) ==
    IF i % 3 = 1 THEN "/event/7/division/" \o ToString(i) \o "/round/1/brackets"
    ELSE IF i % 3 = 2 THEN "/event/7/division/" \o ToString(i) \o "/round/1/pools/1"
    ELSE "/event/7/brackets/" \o ToString(i)

UrlLists == { [i \in 1..n |-> UrlAt(i)] : n \in 0..MaxUrls }

\* what the hydrate fetch of one URL does: fails, or returns a payload whose
\* day 1 has no matches, has matches, or has a malformed bracket
FetchFails == [raises |-> TRUE, data |-> [days |-> <<>>]]
FetchNoMatches ==
    [raises |-> FALSE,
     data |-> [days |-> <<ApiDay(1, [brackets |-> <<>>, flights |-> <<>>], FALSE, FALSE)>>]]
FetchMatches ==
    [raises |-> FALSE,
     data |-> [days |-> <<ApiDay(1, [brackets |-> ApiBrackets, flights |-> ApiFlights],
                                 FALSE, FALSE)>>]]
FetchMalformed ==
    [raises |-> FALSE,
     data |-> [days |-> <<ApiDay(1, [brackets |-> <<NullTypeBracket>>,
                                     flights |-> ApiFlights], TRUE, TRUE)>>]]
CliFetches == {FetchFails, FetchNoMatches, FetchMatches, FetchMalformed}

(***************************************************************************)
(* parallel.py                                                             *)
(***************************************************************************)
\* ParallelScraper._detect_scraper_type
_detect_scraper_type(u) ==
    LET url_lower == Lower(u)
    IN IF Contains(url_lower, "pool") \/ Contains(url_lower, "/pools/")
       THEN "PoolScraper" ELSE "BracketScraper"

\* how one _scan_single ends: scraper.scan returned, an Exception was raised
\* inside the try block (browser start, scan, close), or the task was
\* cancelled (asyncio.CancelledError is not an Exception)
ScanEndings == {"returned", "raised", "cancelled"}

\* ParallelScraper._scan_single: Optional[ScanResult], None when cancelled
_scan_single(u, ending, env, creds) ==
    IF ending = "cancelled" THEN None
    ELSE IF ending = "raised"
    THEN Some([url |-> u, matches |-> <<>>, status |-> "error",
               error |-> Some("browser failed"),
               match_type |-> None, type_detail |-> None])
    ELSE IF _detect_scraper_type(u) = "PoolScraper"
    THEN Some([PoolScraper_scan(u, env, creds) EXCEPT
                   !.match_type = Some(@), !.type_detail = Some(@)])
    ELSE Some([BracketScraper_scan(u, env, creds) EXCEPT
                   !.match_type = Some(@), !.type_detail = Some(@)])

RECURSIVE SumMatches(_)
SumMatches(rs) == IF Len(rs) = 0 THEN 0 ELSE Len(Head(rs).matches) + SumMatches(Tail(rs))

\* the "for r in results" loop of scan_all over what gather returned: a
\* ScanResult is appended, a CancelledError instance is neither an Exception
\* nor a ScanResult and is passed over
RECURSIVE ProcessGathered(_, _, _)
ProcessGathered(ts, i, acc) ==
    IF i > Len(ts) THEN acc
    ELSE IF ts[i].ending = "cancelled" THEN ProcessGathered(ts, i + 1, acc)
    ELSE ProcessGathered(ts, i + 1, Append(acc, ts[i].result[1]))

NewParallelScanResult ==
    [urls_scanned |-> 0, total_matches |-> 0, results |-> <<>>,
     status |-> "pending", error |-> None]

Running == { i \in 1..Len(tasks) : tasks[i].pc = "running" }

\* scan_all up to the launch of the tasks
ScanAllBegin ==
    /\ phase = "scan_all"
    /\ IF Len(p_urls) = 0
       THEN /\ parallelResult' = Some([NewParallelScanResult EXCEPT !.status = "success"])
            /\ tasks' = <<>>
            /\ phase' = "scan_all_done"
       ELSE IF max_concurrent < 0
       THEN \* asyncio.Semaphore raises ValueError, caught by "except Exception"
            /\ parallelResult' = Some([NewParallelScanResult EXCEPT
                                          !.urls_scanned = Len(p_urls),
                                          !.status = "error",
                                          !.error = Some("Semaphore initial value must be >= 0")])
            /\ tasks' = <<>>
            /\ phase' = "scan_all_done"
       ELSE /\ tasks' = [i \in 1..Len(p_urls) |->
                            [pc |-> "waiting", ending |-> "none", result |-> None]]
            /\ parallelResult' = None
            /\ phase' = "gather"
    /\ UNCHANGED <<pageVars, p_urls, max_concurrent, hasCreds, caller, op, apiVars, pureVars, cliVars>>

AcquireSemaphore_NoLimit(i) ==
    /\ phase = "gather"
    /\ tasks[i].pc = "waiting"
    /\ \A j \in 1..(i - 1) : tasks[j].pc # "waiting"
    /\ tasks' = [tasks EXCEPT ![i].pc = "running"]
    /\ UNCHANGED <<pageVars, phase, p_urls, max_concurrent, hasCreds, parallelResult, caller,
                   op, apiVars, pureVars, cliVars>>

\* "async with semaphore": task i enters when a slot is free; gather starts
\* the tasks in list order and the semaphore wakes its waiters first come,
\* first served, so the tasks enter in list order
AcquireSemaphore(i) ==
    /\ phase = "gather"
    /\ tasks[i].pc = "waiting"
    /\ \A j \in 1..(i - 1) : tasks[j].pc # "waiting"
    /\ Cardinality(Running) < max_concurrent
    /\ tasks' = [tasks EXCEPT ![i].pc = "running"]
    /\ UNCHANGED <<pageVars, phase, p_urls, max_concurrent, hasCreds, parallelResult, caller,
                   op, apiVars, pureVars, cliVars>>

\* task i's _scan_single ends and the semaphore is released
FinishScan(i) ==
    /\ phase = "gather"
    /\ tasks[i].pc = "running"
    /\ \E ending \in ScanEndings, env \in BrowserEnvs :
          tasks' = [tasks EXCEPT ![i] =
                       [pc |-> "done", ending |-> ending,
                        result |-> _scan_single(p_urls[i], ending, env, hasCreds)]]
    /\ UNCHANGED <<pageVars, phase, p_urls, max_concurrent, hasCreds, parallelResult, caller,
                   op, apiVars, pureVars, cliVars>>

\* asyncio.gather returns once every task is done; scan_all builds its result
GatherDone ==
    /\ phase = "gather"
    /\ \A i \in 1..Len(tasks) : tasks[i].pc = "done"
    /\ LET rs == ProcessGathered(tasks, 1, <<>>)
       IN parallelResult' = Some([NewParallelScanResult EXCEPT
                                     !.urls_scanned = Len(p_urls),
                                     !.results = rs,
                                     !.total_matches = SumMatches(rs),
                                     !.status = "success"])
    /\ phase' = "scan_all_done"
    /\ UNCHANGED <<pageVars, p_urls, max_concurrent, hasCreds, tasks, caller,
                   op, apiVars, pureVars, cliVars>>

(***************************************************************************)
(* cli.py                                                                  *)
(***************************************************************************)
\* _write_results: the JSON document
_write_results(results, us) ==
    [urls_scanned |-> Len(us),
     total_matches |-> SumMatches(results),
     results |-> results,
     status |-> IF \A i \in 1..Len(results) : results[i].status = "success"
                THEN "success" ELSE "partial"]

\* _try_api_scan: one iteration of "for url in urls"; f is what the hydrate
\* fetch of this URL does.  url, fetch and apiResult hold the iteration's
\* locals.
CliApiStep ==
    /\ phase = "cli_start"
    /\ api_i <= Len(urls)
    /\ \E f \in CliFetches :
          \E result \in {scan_via_api(urls[api_i], f)} :
             /\ url' = urls[api_i]
             /\ fetch' = f
             /\ apiResult' = result
             /\ IF result # None /\ Len(result[1].matches) > 0
                THEN /\ all_results' = Append(all_results,
                                              [result[1] EXCEPT !.match_type = Some(@),
                                                                !.type_detail = Some(@)])
                     /\ UNCHANGED remaining_urls
                ELSE /\ remaining_urls' = Append(remaining_urls, urls[api_i])
                     /\ UNCHANGED all_results
    /\ api_i' = api_i + 1
    /\ UNCHANGED <<pageVars, phase, urls, parallel, seq_i, written, caller, op, pureVars,
                   parallelVars>>

\* _try_api_scan returns; scan_urls returns at once when nothing remains
CliApiReturn ==
    /\ phase = "cli_start"
    /\ api_i > Len(urls)
    /\ url' = "" /\ fetch' = NoFetch /\ apiResult' = None
    /\ IF Len(remaining_urls) = 0
       THEN /\ written' = Some(_write_results(all_results, urls))
            /\ phase' = "cli_done"
       ELSE /\ written' = None
            /\ phase' = "cli_browser"
    /\ UNCHANGED <<pageVars, urls, parallel, api_i, remaining_urls, all_results, seq_i, caller,
                   op, pureVars, parallelVars>>

\* scan_urls: "if parallel and len(remaining_urls) > 1" calls scan_parallel
CliStartParallel ==
    /\ phase = "cli_browser"
    /\ parallel /\ Len(remaining_urls) > 1
    /\ p_urls' = remaining_urls
    /\ caller' = "cli"
    /\ phase' = "scan_all"
    /\ UNCHANGED <<pageVars, max_concurrent, hasCreds, tasks, parallelResult, op, apiVars,
                   pureVars, cliVars>>

\* scan_urls: scan_parallel returned; extend, write, return
CliAfterParallel ==
    /\ phase = "scan_all_done"
    /\ caller = "cli"
    /\ all_results' = all_results \o parallelResult[1].results
    /\ written' = Some(_write_results(all_results', urls))
    /\ phase' = "cli_done"
    /\ UNCHANGED <<pageVars, urls, parallel, api_i, remaining_urls, seq_i, caller,
                   op, apiVars, pureVars, parallelVars>>

\* scan_urls: "async with BracketScraper(config) as scraper"; a browser that
\* does not start raises out of scan_urls
CliOpenBrowser ==
    /\ phase = "cli_browser"
    /\ ~(parallel /\ Len(remaining_urls) > 1)
    /\ \E started \in BOOLEAN : phase' = IF started THEN "cli_seq" ELSE "cli_raised"
    /\ seq_i' = 1
    /\ UNCHANGED <<pageVars, urls, parallel, api_i, remaining_urls, all_results,
                   written, caller, op, apiVars, pureVars, parallelVars>>

\* scan_urls, sequential mode: "if '/pools/' in url.lower()" picks the scraper
SequentialScraperType(u) ==
    IF Contains(Lower(u), "/pools/") THEN "PoolScraper" ELSE "BracketScraper"

\* scan_urls: one iteration of the sequential loop
CliSeqStep ==
    /\ phase = "cli_seq"
    /\ seq_i <= Len(remaining_urls)
    /\ LET u == remaining_urls[seq_i]
       IN \E env \in BrowserEnvs :
             LET result == IF SequentialScraperType(u) = "PoolScraper"
                           THEN PoolScraper_scan(u, env, hasCreds)
                           ELSE BracketScraper_scan(u, env, hasCreds)
             IN all_results' = Append(all_results,
                                      [result EXCEPT !.match_type = Some(@),
                                                     !.type_detail = Some(@)])
    /\ seq_i' = seq_i + 1
    /\ UNCHANGED <<pageVars, phase, urls, parallel, api_i, remaining_urls, written,
                   caller, op, apiVars, pureVars, parallelVars>>

\* scan_urls: the loop is over; write and return
CliSeqReturn ==
    /\ phase = "cli_seq"
    /\ seq_i > Len(remaining_urls)
    /\ written' = Some(_write_results(all_results, urls))
    /\ phase' = "cli_done"
    /\ UNCHANGED <<pageVars, urls, parallel, api_i, remaining_urls, all_results,
                   seq_i, caller, op, apiVars, pureVars, parallelVars>>

(***************************************************************************)
(* parse_format.py.  A format text is the sequence of its whitespace-      *)
(* separated words; a regular expression is matched word by word, at the   *)
(* leftmost position as re.search does.                                    *)
(***************************************************************************)
IsNum(w) == Len(w) > 0 /\ \A i \in 1..Len(w) : IsDigit(SubSeq(w, i, i))
Num(w) == IntOf(w, 1, Len(w))
StartsWith(w, prefix) == Len(w) >= Len(prefix) /\ SubSeq(w, 1, Len(prefix)) = prefix

\* the word at position i, "" past the end
W(t, i) == IF i \in 1..Len(t) THEN t[i] ELSE ""

\* the leftmost position of a set of match positions, 0 when there is none
First(hits) == IF hits = {} THEN 0 ELSE CHOOSE i \in hits : \A j \in hits : i <= j

\* text.lower().strip()
LowerText(t) == [i \in 1..Len(t) |-> Lower(t[i])]

_defaults == [sets_to_win |-> 2, points_per_set |-> 21, point_cap |-> None]

_parse_sets_to_win(t) ==
    LET P == 1..Len(t)
        \* \b1\s*game\b
        one_game == { i \in P : W(t, i) = "1" /\ W(t, i + 1) = "game" }
        \* match\s*play
        match_play == { i \in P : W(t, i) = "match" /\ W(t, i + 1) = "play" }
        \* best\s+(\d+)\s+out\s+of\s+(\d+)
        best_of_match == First({ i \in P : /\ W(t, i) = "best" /\ IsNum(W(t, i + 1))
                                           /\ W(t, i + 2) = "out" /\ W(t, i + 3) = "of"
                                           /\ IsNum(W(t, i + 4)) })
        \* best\s+of\s+(\d+)
        best_of_short == First({ i \in P : /\ W(t, i) = "best" /\ W(t, i + 1) = "of"
                                           /\ IsNum(W(t, i + 2)) })
        \* (\d+)\s+set
        sets_match == First({ i \in P : IsNum(W(t, i)) /\ StartsWith(W(t, i + 1), "set") })
    IN IF one_game # {} THEN 1
       ELSE IF match_play # {} THEN 2
       ELSE IF best_of_match # 0 THEN Num(W(t, best_of_match + 1))
       ELSE IF best_of_short # 0 THEN (Num(W(t, best_of_short + 2)) \div 2) + 1
       ELSE IF sets_match # 0 /\ Num(W(t, sets_match)) <= 3
       THEN (IF Num(W(t, sets_match)) <= 2 THEN Num(W(t, sets_match)) ELSE 2)
       ELSE 2

_parse_points_per_set(t) ==
    LET P == 1..Len(t)
        \* (?:game|games?)\s+to\s+(\d+)
        game_to == First({ i \in P : /\ W(t, i) \in {"game", "games"}
                                     /\ W(t, i + 1) = "to" /\ IsNum(W(t, i + 2)) })
        \* sets?\s+\d+\s*(?:&|and)\s*\d+\s+to\s+(\d+)
        sets_to == First({ i \in P : /\ W(t, i) \in {"set", "sets"} /\ IsNum(W(t, i + 1))
                                     /\ W(t, i + 2) \in {"&", "and"} /\ IsNum(W(t, i + 3))
                                     /\ W(t, i + 4) = "to" /\ IsNum(W(t, i + 5)) })
        \* set\s*\d*\s+to\s+(\d+): "set to N" or "set K to N"
        SetToAt(i) == W(t, i) = "set" /\ W(t, i + 1) = "to" /\ IsNum(W(t, i + 2))
        SetKToAt(i) == /\ W(t, i) = "set" /\ IsNum(W(t, i + 1))
                       /\ W(t, i + 2) = "to" /\ IsNum(W(t, i + 3))
        set_to == First({ i \in P : SetToAt(i) \/ SetKToAt(i) })
        \* \bto\s+(\d+)\b
        to_points == First({ i \in P : W(t, i) = "to" /\ IsNum(W(t, i + 1)) })
        \* re.findall(r'\b(\d{2})\b') filtered by [15, 21, 25, 28]
        numbers == First({ i \in P : /\ IsNum(W(t, i)) /\ Len(W(t, i)) = 2
                                     /\ Num(W(t, i)) \in {15, 21, 25, 28} })
    IN IF game_to # 0 THEN Num(W(t, game_to + 2))
       ELSE IF sets_to # 0 THEN Num(W(t, sets_to + 5))
       ELSE IF set_to # 0
       THEN (IF SetToAt(set_to) THEN Num(W(t, set_to + 2)) ELSE Num(W(t, set_to + 3)))
       ELSE IF to_points # 0 /\ Num(W(t, to_points + 1)) >= 10
                             /\ Num(W(t, to_points + 1)) <= 35
       THEN Num(W(t, to_points + 1))
       ELSE IF numbers # 0 THEN Num(W(t, numbers))
       ELSE 21

_parse_point_cap(t) ==
    LET P == 1..Len(t)
        \* \bno\s*cap\b
        no_cap == { i \in P : W(t, i) = "no" /\ W(t, i + 1) = "cap" }
        \* cap(?:ped)?\s+(?:at\s+)?(\d+)
        CapAtAt(i) == /\ W(t, i) \in {"cap", "capped"} /\ W(t, i + 1) = "at"
                      /\ IsNum(W(t, i + 2))
        CapNAt(i) == W(t, i) \in {"cap", "capped"} /\ IsNum(W(t, i + 1))
        cap_at == First({ i \in P : CapAtAt(i) \/ CapNAt(i) })
    IN IF no_cap # {} THEN None
       ELSE IF cap_at # 0
       THEN (IF CapAtAt(cap_at) THEN Some(Num(W(t, cap_at + 2)))
             ELSE Some(Num(W(t, cap_at + 1))))
       ELSE None   \* "win by 2" and the default both give None

parse_format_text(t) ==
    IF Len(t) = 0 THEN _defaults
    ELSE LET text_lower == LowerText(t)
         IN [sets_to_win |-> _parse_sets_to_win(text_lower),
             points_per_set |-> _parse_points_per_set(text_lower),
             point_cap |-> _parse_point_cap(text_lower)]

(***************************************************************************)
(* Inputs of parse_format_text: texts made of at most MaxPhrases phrases   *)
(***************************************************************************)
MaxPhrases == 2

Phrases ==
    {<<"All", "Matches", "Are">>, <<"1", "game">>, <<"Match", "Play">>,
     <<"1", "set">>, <<"set", "3", "to", "15">>,
     <<"sets", "1", "&", "2", "to", "21">>,
     <<"no", "cap">>, <<"win", "by", "2">>, <<"cap", "at", "23">>,
     <<"capped", "at", "30">>, <<"23", "point", "cap">>}
    \cup {<<"best", c, "out", "of", "3">> : c \in {"0", "2"}}
    \cup {<<"Best", "of", c>> : c \in {"3", "5"}}
    \cup {<<c, "sets">> : c \in {"0", "2", "3", "5"}}
    \cup {<<"to", n>> : n \in {"0", "7", "21", "25"}}
    \cup {<<"game", "to", n>> : n \in {"0", "28"}}

Texts == { FlattenSeq(ps) : ps \in SeqsUpTo(Phrases, MaxPhrases) }

(***************************************************************************)
(* archived-versions/v2-refactored pool.py: the page-only pool scan        *)
(***************************************************************************)
\* the characters of the team names, in code-point order
CodeOrder == " /ABCDEFGHIJKLMNOPQRSTUVWXYZabcdefghijklmnopqrstuvwxyz"

Ord(c) == CHOOSE i \in 1..Len(CodeOrder) : SubSeq(CodeOrder, i, i) = c

\* a <= b in the order sorted() puts two str values
RECURSIVE StrLeq(_, _)
StrLeq(a, b) ==
    IF Len(a) = 0 THEN TRUE
    ELSE IF Len(b) = 0 THEN FALSE
    ELSE IF SubSeq(a, 1, 1) = SubSeq(b, 1, 1)
         THEN StrLeq(SubSeq(a, 2, Len(a)), SubSeq(b, 2, Len(b)))
    ELSE Ord(SubSeq(a, 1, 1)) < Ord(SubSeq(b, 1, 1))

\* truthiness of an Optional[str]
Truthy(v) == v # None /\ v # Some("")

\* "v or ''"
OrEmpty(v) == IF Truthy(v) THEN v[1] ELSE ""

\* the two names joined in the given order
JoinNames(a, b) == a \o "|" \o b

Signature_Ordered(match) == JoinNames(OrEmpty(match.team1), OrEmpty(match.team2))

\* teams = sorted([match.team1 or "", match.team2 or ""]);
\* signature = f"{teams[0]}|{teams[1]}"
Signature(match) ==
    IF StrLeq(OrEmpty(match.team1), OrEmpty(match.team2))
    THEN JoinNames(OrEmpty(match.team1), OrEmpty(match.team2))
    ELSE JoinNames(OrEmpty(match.team2), OrEmpty(match.team1))

\* what extract_match_format returns when the page shows no format text
PageFormat ==
    [sets_to_win |-> 2, points_per_set |-> 21, point_cap |-> None,
     format_text |-> None]

\* the record the scan keeps for container i: what _process_match read from
\* the card, the type of the URL and the format of the page
PageMatch(card, i, labels) ==
    [index |-> i, match_number |-> card.match_number,
     team1 |-> card.team1, team2 |-> card.team2,
     team1_seed |-> None, team2_seed |-> None, court |-> None,
     start_time |-> None, start_date |-> None,
     api_url |-> card.api_url,
     match_type |-> labels[1], type_detail |-> labels[2],
     sets_to_win |-> PageFormat.sets_to_win,
     points_per_set |-> PageFormat.points_per_set,
     point_cap |-> PageFormat.point_cap,
     format_text |-> PageFormat.format_text]

\* the "for i, container in enumerate(containers)" loop: a card whose
\* processing raises is skipped, and so is one with no team1 and no api_url
RECURSIVE ProcessCards(_, _, _, _)
ProcessCards(cs, i, labels, acc) ==
    IF i >= Len(cs) THEN acc
    ELSE IF cs[i + 1].raises
              \/ ~(Truthy(cs[i + 1].team1) \/ Truthy(cs[i + 1].api_url))
         THEN ProcessCards(cs, i + 1, labels, acc)
    ELSE ProcessCards(cs, i + 1, labels, Append(acc, PageMatch(cs[i + 1], i, labels)))

\* the "for match in result.matches" loop over seen_signatures
RECURSIVE Deduplicate(_, _, _, _)
Deduplicate(ms, i, seen_signatures, unique_matches) ==
    IF i > Len(ms) THEN unique_matches
    ELSE IF Signature(ms[i]) \in seen_signatures
         THEN Deduplicate(ms, i + 1, seen_signatures, unique_matches)
    ELSE Deduplicate(ms, i + 1, seen_signatures \cup {Signature(ms[i])},
                     Append(unique_matches, ms[i]))

\* PoolScraper.scan of the archived version on a page that needs no login
\* and shows the containers cs
PoolScraper_scan_page(u, cs) ==
    IF Len(cs) = 0
    THEN [NewScanResult(u) EXCEPT !.status = "success",
                                  !.error = Some("No matches found on page")]
    ELSE [NewScanResult(u) EXCEPT
             !.status = "success",
             !.matches = Deduplicate(ProcessCards(cs, 0, determine_url_type(u), <<>>),
                                     1, {}, <<>>)]

(***************************************************************************)
(* Inputs of the page-only pool scan                                       *)
(***************************************************************************)
MaxCards == 3        \* match containers found on the page

PoolPageUrl == "/event/7/division/3/round/1/pools/1"

Card(t1, t2, api, num) ==
    [raises |-> FALSE, team1 |-> t1, team2 |-> t2, api_url |-> api,
     match_number |-> num]

\* the cards of one page: a match, the same match with its sides swapped, a
\* second match of the same two teams, a match of other teams, two cards
\* without names that carry an API URL, a card with nothing, a card whose
\* processing raises
CardShapes ==
    {Card(Some("Ann A / Bo B"), Some("Cy C / Di D"), Some("vmix/1"), Some("1")),
     Card(Some("Cy C / Di D"), Some("Ann A / Bo B"), Some("vmix/1"), Some("1")),
     Card(Some("Ann A / Bo B"), Some("Cy C / Di D"), Some("vmix/2"), Some("2")),
     Card(Some("Ann A / Bo B"), Some("Ed E / Flo F"), Some("vmix/3"), Some("3")),
     Card(None, None, Some("vmix/4"), Some("4")),
     Card(Some(""), Some(""), Some("vmix/5"), Some("5")),
     Card(None, None, None, None),
     [Card(None, None, None, None) EXCEPT !.raises = TRUE]}

(***************************************************************************)
(* bracket.py: BracketScraper._extract_card_data.  The overlay's text is   *)
(* the sequence of its whitespace-separated words.                         *)
(***************************************************************************)
\* number of space characters of s from position i on
RECURSIVE SpaceRun(_, _)
SpaceRun(s, i) ==
    IF i <= Len(s) /\ SubSeq(s, i, i) = " " THEN 1 + SpaceRun(s, i + 1) ELSE 0

IsAlnum(c) == IsDigit(c) \/ c \in DOMAIN LowerMap \/ c \in { LowerMap[k] : k \in DOMAIN LowerMap }

\* number of leading [A-Z0-9] characters (re.I) of s from position i on
RECURSIVE AlnumRun(_, _)
AlnumRun(s, i) ==
    IF i <= Len(s) /\ IsAlnum(SubSeq(s, i, i)) THEN 1 + AlnumRun(s, i + 1) ELSE 0

\* re.search(r'Match\s*(\d+)', match_text, re.I): group(1), None without match
MatchNumberOf(match_text) ==
    LET l == Lower(match_text)
        At(i) == i + 5 + SpaceRun(l, i + 5)
        hits == { i \in 1..(Len(l) - 4) :
                      SubSeq(l, i, i + 4) = "match" /\ DigitRun(l, At(i)) > 0 }
    IN IF hits = {} THEN None
       ELSE LET q == At(CHOOSE i \in hits : \A j \in hits : i <= j)
            IN Some(SubSeq(match_text, q, q + DigitRun(match_text, q) - 1))

\* re.search(r'(?:Court|Ct)\s*(\d+|[A-Z0-9]+)', court_text, re.I): group(1)
CourtOf(court_text) ==
    LET l == Lower(court_text)
        Ends(i) == { e \in {i + 5, i + 2} :
                        e - 1 <= Len(l) /\ SubSeq(l, i, e - 1) \in {"court", "ct"} }
        At(e) == e + SpaceRun(l, e)
        hits == { i \in 1..Len(l) : \E e \in Ends(i) : AlnumRun(l, At(e)) > 0 }
    IN IF hits = {} THEN None
       ELSE LET i == CHOOSE k \in hits : \A j \in hits : k <= j
                q == At(CHOOSE e \in Ends(i) : AlnumRun(l, At(e)) > 0)
            IN IF DigitRun(l, q) > 0
               THEN Some(SubSeq(court_text, q, q + DigitRun(l, q) - 1))
               ELSE Some(SubSeq(court_text, q, q + AlnumRun(l, q) - 1))

\* the header part: match number, time and court from div.v-card-title
CardHeader(title, match) ==
    IF ~title.visible THEN match
    ELSE LET spans == title.spans
             m1 == IF Len(spans) > 0 /\ MatchNumberOf(spans[1]) # None
                   THEN [match EXCEPT !.match_number = MatchNumberOf(spans[1])]
                   ELSE match
             m2 == IF title.time # None THEN [m1 EXCEPT !.start_time = title.time]
                   ELSE m1
         IN IF Len(spans) > 1 /\ CourtOf(spans[Len(spans)]) # None
            THEN [m2 EXCEPT !.court = CourtOf(spans[Len(spans)])]
            ELSE m2

\* teams: the (seed, name) pairs of the first two td.clickable cells
CardTeams(name_cells, seed_cells) ==
    LET count == IF Len(name_cells) < 2 THEN Len(name_cells) ELSE 2
    IN [i \in 1..count |->
           [seed |-> IF i <= Len(seed_cells) /\ IsNum(seed_cells[i])
                     THEN Some(seed_cells[i]) ELSE None,
            name |-> name_cells[i]]]

\* scores: the td.text-center cells that hold only digits, as ints
CardScores(score_cells) ==
    LET digits == SelectSeq(score_cells, IsNum)
    IN [i \in 1..Len(digits) |-> Num(digits[i])]

\* the words t[i..j] joined by single spaces
RECURSIVE JoinWords(_, _, _)
JoinWords(t, i, j) ==
    IF i > j THEN ""
    ELSE IF i = j THEN t[i]
    ELSE t[i] \o " " \o JoinWords(t, i + 1, j)

\* words matched at position i by (?:Match\s+\d+|Winner|Loser), 0 for none
PlaceholderElem(t, i) ==
    IF Lower(W(t, i)) = "match" /\ IsNum(W(t, i + 1)) THEN 2
    ELSE IF Lower(W(t, i)) \in {"winner", "loser"} THEN 1
    ELSE 0

\* the last word of the match that
\* ((?:Match\s+\d+|Winner|Loser)(?:\s+of)?\s+(?:Match\s+\d+|Winner|Loser)?)
\* finds at word i, 0 when it does not match there; trail says that
\* whitespace follows the last word of the text
PlaceholderEnd(t, trail, i) ==
    LET j == i + PlaceholderElem(t, i)
        SpaceAfter(k) == k < Len(t) \/ trail
    IN IF PlaceholderElem(t, i) = 0 THEN 0
       ELSE IF Lower(W(t, j)) = "of" /\ SpaceAfter(j)
       THEN j + PlaceholderElem(t, j + 1)
       ELSE IF SpaceAfter(j - 1) THEN j - 1 + PlaceholderElem(t, j)
       ELSE 0

\* re.findall of the placeholder pattern over full_text, each hit stripped
RECURSIVE FindPlaceholders(_, _, _)
FindPlaceholders(t, trail, i) ==
    IF i > Len(t) THEN <<>>
    ELSE IF PlaceholderEnd(t, trail, i) = 0 THEN FindPlaceholders(t, trail, i + 1)
    ELSE <<JoinWords(t, i, PlaceholderEnd(t, trail, i))>>
         \o FindPlaceholders(t, trail, PlaceholderEnd(t, trail, i) + 1)

LongerThan5(p) == Len(p) > 5

\* "not name or name.strip().upper() == 'TBD' or name.strip() == ''"
IsEmptyOrTBD(name) == ~Truthy(name) \/ Lower(name[1]) = "tbd"

\* "not name or name.lower() in ['team a', 'team b', 'tbd']"
IsGeneric(name) == ~Truthy(name) \/ Lower(name[1]) \in {"team a", "team b", "tbd"}

\* the fallback of lines 334-350: valid holds the placeholders longer than 5
PlaceholderFallback(match, valid) ==
    IF ~IsEmptyOrTBD(match.team1) THEN match
    ELSE IF Len(valid) >= 2
    THEN [match EXCEPT !.team1 = Some(valid[1]), !.team2 = Some(valid[2])]
    ELSE IF Len(valid) = 1
    THEN IF IsGeneric(match.team1) THEN [match EXCEPT !.team1 = Some(valid[1])]
         ELSE IF IsGeneric(match.team2) THEN [match EXCEPT !.team2 = Some(valid[1])]
         ELSE match
    ELSE match

\* the scores and the teams assigned to the match object (lines 316-331)
AssignCard(match, teams, scores) ==
    LET m1 == IF Len(scores) >= 2
              THEN [team1_score |-> scores[1], team2_score |-> scores[2]] @@ match
              ELSE match
        m2 == IF Len(teams) >= 1
              THEN [m1 EXCEPT !.team1_seed = teams[1].seed,
                              !.team1 = Some(teams[1].name)]
              ELSE m1
    IN IF Len(teams) >= 2
       THEN [m2 EXCEPT !.team2_seed = teams[2].seed, !.team2 = Some(teams[2].name)]
       ELSE m2

\* BracketScraper._extract_card_data; an overlay that raises at the first
\* locator call leaves the match as it was
_extract_card_data(ov, match) ==
    IF ov.raises THEN match
    ELSE PlaceholderFallback(
             AssignCard(CardHeader(ov.title, match),
                        CardTeams(ov.name_cells, ov.seed_cells),
                        CardScores(ov.score_cells)),
             SelectSeq(FindPlaceholders(ov.full_text, ov.trail, 1), LongerThan5))

(***************************************************************************)
(* Inputs of _extract_card_data                                            *)
(***************************************************************************)
MaxNameCells == 2    \* td.clickable cells of one overlay

\* the text of a name cell, stripped, and its words
NameWords ==
    ("" :> <<>>) @@ ("TBD" :> <<"TBD">>)
    @@ ("Ann A / Bo B" :> <<"Ann", "A", "/", "Bo", "B">>)
    @@ ("Cy C / Di D" :> <<"Cy", "C", "/", "Di", "D">>)

\* the card title: absent, a match number alone, or match number, time and
\* court
CardTitles ==
    {[visible |-> FALSE, spans |-> <<>>, time |-> None, words |-> <<>>],
     [visible |-> TRUE, spans |-> <<"Match 3">>, time |-> None,
      words |-> <<"Match", "3">>],
     [visible |-> TRUE, spans |-> <<"match12", "Ct B2">>, time |-> Some("3:15PM"),
      words |-> <<"match12", "3:15PM", "Ct", "B2">>]}

\* what else the overlay shows: nothing, the feeder matches of both sides,
\* the feeder of one side, a loser's feeder, bare words
CardNotes ==
    {<<>>,
     <<"Match", "1", "Winner", "vs", "Winner", "of", "Match", "2">>,
     <<"Winner", "of", "Match", "1">>,
     <<"Loser", "of", "Match", "2", "Ref", "Loser">>,
     <<"Winner">>}

Overlay(title, names, seeds, scores, notes, trail) ==
    [raises |-> FALSE, title |-> title, name_cells |-> names,
     seed_cells |-> seeds, score_cells |-> scores,
     full_text |-> title.words
                   \o FlattenSeq([i \in 1..Len(names) |-> NameWords[names[i]]])
                   \o scores \o notes,
     trail |-> trail]

NoOverlay == [raises |-> TRUE]

Overlays ==
    {NoOverlay}
    \cup { Overlay(title, names, seeds, scores, notes, trail) :
              title \in CardTitles,
              names \in SeqsUpTo(DOMAIN NameWords, MaxNameCells),
              seeds \in {<<>>, <<"1", "x">>},
              scores \in {<<>>, <<"21", "-", "19">>},
              notes \in CardNotes,
              trail \in BOOLEAN }

(***************************************************************************)
(* Specifications                                                          *)
(***************************************************************************)
FormatIdle == text = <<>> /\ fmt_result = None
ExtractIdle == day = NoDay /\ pool_id_filter = None /\ extracted = None /\ FormatIdle
ApiIdle == url = "" /\ fetch = NoFetch /\ apiResult = None
ParallelIdle ==
    /\ p_urls = <<>> /\ max_concurrent = 1 /\ hasCreds = FALSE
    /\ tasks = <<>> /\ parallelResult = None
CliIdle ==
    /\ urls = <<>> /\ parallel = FALSE /\ api_i = 1
    /\ remaining_urls = <<>> /\ all_results = <<>> /\ seq_i = 1 /\ written = None
CardIdle == overlay = NoOverlay /\ card_match = None
PageIdle == cards = <<>> /\ page_result = None /\ CardIdle
PureIdle == phase = "idle" /\ caller = "none" /\ ParallelIdle /\ CliIdle

\* ---- the extractors applied to one day ----
InitExtract ==
    /\ op = "init"
    /\ PageIdle
    /\ \/ day \in BracketDays \cup FormatDays \cup TeamDays \cup TimeDays
          /\ pool_id_filter = None
       \/ day \in PoolDays /\ pool_id_filter \in PoolIdFilters
    /\ extracted = None
    /\ FormatIdle
    /\ ApiIdle
    /\ PureIdle

ExtractBracket ==
    /\ op = "init"
    /\ extracted' = Some(_extract_bracket_matches(day, Directory))
    /\ op' = "bracket"
    /\ UNCHANGED <<pageVars, day, pool_id_filter, text, fmt_result, apiVars, phase, caller, parallelVars, cliVars>>

ExtractPool ==
    /\ op = "init"
    /\ extracted' = Some(_extract_pool_matches(day, Directory, pool_id_filter))
    /\ op' = "pool"
    /\ UNCHANGED <<pageVars, day, pool_id_filter, text, fmt_result, apiVars, phase, caller, parallelVars, cliVars>>

NextExtract == ExtractBracket \/ ExtractPool

\* ---- scan_via_api applied to one URL ----
InitApi ==
    /\ op = "init"
    /\ PageIdle
    /\ url \in ApiUrls
    /\ fetch \in Fetches
    /\ apiResult = None
    /\ ExtractIdle
    /\ PureIdle

ScanViaApi ==
    /\ op = "init"
    /\ apiResult' = scan_via_api(url, fetch)
    /\ op' = "scan"
    /\ UNCHANGED <<pageVars, url, fetch, pureVars, phase, caller, parallelVars, cliVars>>

NextApi == ScanViaApi

\* ---- parse_format_text applied to one text ----
InitFormat ==
    /\ op = "init"
    /\ PageIdle
    /\ text \in Texts
    /\ fmt_result = None
    /\ day = NoDay /\ pool_id_filter = None /\ extracted = None
    /\ ApiIdle
    /\ PureIdle

ParseFormat ==
    /\ op = "init"
    /\ fmt_result' = Some(parse_format_text(text))
    /\ op' = "parse"
    /\ UNCHANGED <<pageVars, text, day, pool_id_filter, extracted, apiVars, phase, caller,
                   parallelVars, cliVars>>

NextFormat == ParseFormat

\* ---- the page-only pool scan applied to the cards of one page ----
InitPoolPage ==
    /\ op = "init"
    /\ cards \in SeqsUpTo(CardShapes, MaxCards)
    /\ page_result = None
    /\ CardIdle
    /\ ExtractIdle
    /\ ApiIdle
    /\ PureIdle

PoolPageScan ==
    /\ op = "init"
    /\ page_result' = Some(PoolScraper_scan_page(PoolPageUrl, cards))
    /\ op' = "pool_page"
    /\ UNCHANGED <<cards, overlay, card_match, pureVars, apiVars, phase, caller,
                   parallelVars, cliVars>>

NextPoolPage == PoolPageScan

\* ---- _extract_card_data applied to one overlay ----
InitCard ==
    /\ op = "init"
    /\ cards = <<>> /\ page_result = None
    /\ overlay \in Overlays
    /\ card_match = None
    /\ ExtractIdle
    /\ ApiIdle
    /\ PureIdle

ExtractCardData ==
    /\ op = "init"
    /\ card_match' = Some(_extract_card_data(overlay, VBLMatch(0)))
    /\ op' = "card"
    /\ UNCHANGED <<cards, page_result, overlay, pureVars, apiVars, phase, caller,
                   parallelVars, cliVars>>

NextCard == ExtractCardData

\* ---- ParallelScraper.scan_all called on a URL list ----
InitParallel ==
    /\ op = "idle"
    /\ PageIdle
    /\ ExtractIdle /\ ApiIdle /\ CliIdle
    /\ phase = "scan_all"
    /\ caller = "none"
    /\ p_urls \in UrlLists
    /\ max_concurrent \in 0..MaxConcurrent
    /\ hasCreds \in BOOLEAN
    /\ tasks = <<>>
    /\ parallelResult = None

NextParallel ==
    \/ ScanAllBegin
    \/ \E i \in 1..Len(tasks) : AcquireSemaphore(i)
    \/ \E i \in 1..Len(tasks) : FinishScan(i)
    \/ GatherDone

\* ---- scan_urls called on a URL list ----
InitCli ==
    /\ op = "idle"
    /\ PageIdle
    /\ ExtractIdle /\ ApiIdle
    /\ phase = "cli_start"
    /\ caller = "none"
    /\ urls \in UrlLists
    /\ parallel \in BOOLEAN
    /\ max_concurrent \in 1..MaxConcurrent
    /\ hasCreds \in BOOLEAN
    /\ p_urls = <<>> /\ tasks = <<>> /\ parallelResult = None
    /\ api_i = 1 /\ remaining_urls = <<>> /\ all_results = <<>>
    /\ seq_i = 1 /\ written = None

NextCli ==
    \/ CliApiStep
    \/ CliApiReturn
    \/ CliStartParallel
    \/ ScanAllBegin
    \/ \E i \in 1..Len(tasks) : AcquireSemaphore(i)
    \/ \E i \in 1..Len(tasks) : FinishScan(i)
    \/ GatherDone
    \/ CliAfterParallel
    \/ CliOpenBrowser
    \/ CliSeqStep
    \/ CliSeqReturn

vars == <<day, pool_id_filter, extracted, text, fmt_result, op, url, fetch, apiResult,
          phase, caller, p_urls, max_concurrent, hasCreds, tasks, parallelResult,
          urls, parallel, api_i, remaining_urls, all_results, seq_i,
          written, cards, page_result, overlay, card_match>>

SpecExtract == InitExtract /\ [][NextExtract]_vars
SpecApi == InitApi /\ [][NextApi]_vars
SpecFormat == InitFormat /\ [][NextFormat]_vars
SpecParallel == InitParallel /\ [][NextParallel]_vars
SpecCli == InitCli /\ [][NextCli]_vars
SpecPoolPage == InitPoolPage /\ [][NextPoolPage]_vars
SpecCard == InitCard /\ [][NextCard]_vars

(***************************************************************************)
(* Properties of the extractors and of scan_via_api                        *)
(***************************************************************************)
\* the raw matches of all brackets of a day, in payload order
RawBracketMatches(d) ==
    LET bs == Get(d, "brackets", <<>>)
    IN FlattenSeq([i \in 1..Len(bs) |-> Get(bs[i], "matches", <<>>)])

\* the pools of all flights of a day, in payload order
RawPools(d) ==
    LET fs == Get(d, "flights", <<>>)
    IN FlattenSeq([i \in 1..Len(fs) |-> Get(fs[i], "pools", <<>>)])

\* the raw matches of a list of pools, in payload order
RawPoolMatches(ps) == FlattenSeq([i \in 1..Len(ps) |-> Get(ps[i], "matches", <<>>)])

HasRealId(m) == HasKey(m, "id") /\ m.id # 0
IsByeMatch(m) == HasKey(m, "isBye") /\ m.isBye
Playable(m) == HasRealId(m) /\ ~IsByeMatch(m)

PoolsSelected(d, filter) ==
    LET HasFilterId(pool) == HasKey(pool, "id") /\ Some(pool.id) = filter
    IN IF filter = None THEN RawPools(d)
       ELSE SelectSeq(RawPools(d), HasFilterId)

\* C8 (as claimed): with pool_id_filter set, _extract_pool_matches returns zero
\* records when no pool has that id and exactly the matches (non-zero id) of
\* the pool that has it; with no filter, the matches of every pool.
C8_PoolFilterExact ==
    op = "pool" =>
        LET recs == extracted[1].matches
            want == SelectSeq(RawPoolMatches(PoolsSelected(day, pool_id_filter)), HasRealId)
        IN /\ Len(recs) = Len(want)
           /\ \A i \in 1..Len(recs) : recs[i].api_url = PoolApiUrl(want[i].id)

\* the raw matches of all brackets / all pools of the fetched payload
PayloadBracketMatches ==
    FlattenSeq([i \in 1..Len(fetch.data.days) |-> RawBracketMatches(fetch.data.days[i])])
PayloadPoolMatches ==
    FlattenSeq([i \in 1..Len(fetch.data.days) |->
                    RawPoolMatches(RawPools(fetch.data.days[i]))])

C3_ApiNoneOrMatches ==
    (phase = "cli_start" /\ api_i > 1) =>
        /\ \/ apiResult = None
           \/ apiResult[1].status = "success" /\ Len(apiResult[1].matches) >= 1
        /\ (\/ parse_vbl_url(url) = None
            \/ fetch.raises
            \/ fetch = FetchMalformed
            \/ fetch = FetchNoMatches) => apiResult = None
        /\ IF apiResult = None
           THEN /\ Len(remaining_urls) > 0
                /\ remaining_urls[Len(remaining_urls)] = url
                /\ \A i \in 1..Len(all_results) : all_results[i].url # url
           ELSE /\ Len(all_results) > 0
                /\ all_results[Len(all_results)].url = url
                /\ all_results[Len(all_results)].matches = apiResult[1].matches
                /\ \A i \in 1..Len(remaining_urls) : remaining_urls[i] # url

\* three URLs: one answered by the API, one left to the browser, and the last
\* one unclassifiable
C3_Witness ==
    /\ phase = "cli_start"
    /\ api_i = 4
    /\ parse_vbl_url(url) = None
    /\ apiResult = None
    /\ Len(all_results) = 1
    /\ Len(remaining_urls) = 2

\* C4 (as claimed): the list scan_urls returns is ordered as the input URLs:
\* results[i] is the result of urls[i].
C4_ResultsInInputOrder ==
    phase = "cli_done" =>
        /\ Len(all_results) = Len(urls)
        /\ \A i \in 1..Len(all_results) : all_results[i].url = urls[i]

\* C5 (as claimed): scan_all returns its per-URL results in the order of the
\* input URLs, whatever the order in which the scans complete.
C5_ParallelResultsInInputOrder ==
    phase = "scan_all_done" =>
        \A i \in 1..Len(parallelResult[1].results) :
            parallelResult[1].results[i].url = p_urls[i]

\* C6 (as claimed): the list scan_all returns has exactly one entry per input
\* URL; a scan that raises or is cancelled yields an error entry carrying its
\* URL, and every other scan's entry is the result that scan returned.
C6_FailureIsolated ==
    phase = "scan_all_done" =>
        LET rs == parallelResult[1].results
        IN /\ Len(rs) = Len(p_urls)
           /\ \A i \in 1..Len(tasks) :
                 /\ i <= Len(rs)
                 /\ tasks[i].ending \in {"raised", "cancelled"} =>
                        rs[i].status = "error" /\ rs[i].url = p_urls[i]
                 /\ tasks[i].ending = "returned" => rs[i] = tasks[i].result[1]

\* C7 (as claimed): a format parsed by parse_format_text has sets_to_win >= 1
\* and points_per_set > 0, for every format text.
C7_FormatPositive ==
    fmt_result # None =>
        /\ fmt_result[1].sets_to_win >= 1
        /\ fmt_result[1].points_per_set > 0

\* C10 (as claimed): a finalized ScanResult has status "success" or "error",
\* and its error is null exactly when the status is "success".
C10_StatusErrorConsistent ==
    \A i \in 1..Len(all_results) :
        /\ all_results[i].status \in {"success", "error"}
        /\ all_results[i].error = None <=> all_results[i].status = "success"

(***************************************************************************)
(* Properties of the batch status and of malformed payload entries         *)
(***************************************************************************)
AllSuccess(rs) == \A i \in 1..Len(rs) : rs[i].status = "success"
SomeSuccess(rs) == \E i \in 1..Len(rs) : rs[i].status = "success"

\* C11 (as claimed): the batch status is "success" only when every per-URL
\* result has status "success", and "partial" when some URLs succeeded and
\* some failed, both in the envelope written by _write_results and in the
\* ParallelScanResult returned by scan_all.
C11_BatchStatusReflectsResults ==
    /\ written # None =>
          /\ written[1].status = "success" => AllSuccess(written[1].results)
          /\ (SomeSuccess(written[1].results) /\ ~AllSuccess(written[1].results))
                 => written[1].status = "partial"
    /\ parallelResult # None =>
          /\ parallelResult[1].status = "success" => AllSuccess(parallelResult[1].results)
          /\ (SomeSuccess(parallelResult[1].results)
                 /\ ~AllSuccess(parallelResult[1].results))
                 => parallelResult[1].status = "partial"

\* the api_url values of the well-formed matches a scan of day d selects:
\* playable matches of the brackets whose fields are well formed, then the
\* matches with a real id of the pools the filter keeps
WellFormedUrls(d, parts) ==
    LET IsWellFormed(bracket) == ~IsNull(bracket, "type")
        Kept(pool) == ~PoolFiltered(pool, parts.pool_id)
        bs == SelectSeq(Get(d, "brackets", <<>>), IsWellFormed)
        bms == SelectSeq(FlattenSeq([i \in 1..Len(bs) |-> Get(bs[i], "matches", <<>>)]),
                         Playable)
        pms == SelectSeq(RawPoolMatches(SelectSeq(RawPools(d), Kept)), HasRealId)
    IN IF DaySkipped(d, parts) THEN <<>>
       ELSE (IF parts.is_bracket \/ Get(d, "bracketPlay", FALSE)
             THEN [i \in 1..Len(bms) |-> BracketApiUrl(bms[i].id)] ELSE <<>>)
            \o (IF parts.is_pool \/ Get(d, "poolPlay", FALSE)
                THEN [i \in 1..Len(pms) |-> PoolApiUrl(pms[i].id)] ELSE <<>>)

\* C12 (as claimed): a malformed entry never raises past the extractor's
\* loop; the bad entry is skipped and every well-formed match of the payload
\* is still returned by the scan of the URL.
C12_MalformedEntrySkipped ==
    (op = "scan" /\ parse_vbl_url(url) # None /\ ~fetch.raises) =>
        LET parts == parse_vbl_url(url)[1]
            ds == fetch.data.days
            want == FlattenSeq([i \in 1..Len(ds) |-> WellFormedUrls(ds[i], parts)])
        IN IF Len(want) = 0 THEN apiResult = None
           ELSE /\ apiResult # None
                /\ [i \in 1..Len(apiResult[1].matches) |-> apiResult[1].matches[i].api_url]
                       = want

(***************************************************************************)
(* Properties of the team names                                            *)
(***************************************************************************)
\* the side's team id is present and found in the directory
SideResolves(match, key) ==
    /\ HasKey(match, key)
    /\ HasKey(match[key], "teamId")
    /\ match[key].teamId \in DOMAIN Directory

\* the name the claim gives a side: the directory name when the id resolves,
\* else the string form of the match's advancement placeholder, else null
ClaimedName(match, key) ==
    IF SideResolves(match, key) THEN Some(Directory[match[key].teamId].name)
    ELSE IF HasKey(match, "awayMap") THEN Some(match.awayMap)
    ELSE None

\* C13 (as claimed): in bracket extraction each side whose team id is absent
\* or not in the directory has a null name unless the raw match carries an
\* advancement placeholder, whose string form is then the name; a side whose
\* id resolves has the directory name; an unresolvable id never raises.
C13_TeamNameOrPlaceholder ==
    op = "bracket" =>
        LET recs == extracted[1].matches
            want == SelectSeq(RawBracketMatches(day), Playable)
        IN /\ ~extracted[1].raised
           /\ Len(recs) = Len(want)
           /\ \A i \in 1..Len(recs) :
                 /\ recs[i].team1 = ClaimedName(want[i], "homeTeam")
                 /\ recs[i].team2 = ClaimedName(want[i], "awayTeam")

(***************************************************************************)
(* Properties of parse_format_text                                         *)
(***************************************************************************)
\* the positions where the words ws occur in a row in the text, letter case
\* aside
WordsAt(t, ws) ==
    { i \in 1..Len(t) : \A k \in 1..Len(ws) : W(LowerText(t), i + k - 1) = ws[k] }

HasWords(t, ws) == WordsAt(t, ws) # {}

SaysNoCap(t) == HasWords(t, <<"no", "cap">>) \/ HasWords(t, <<"win", "by", "2">>)

\* C14 (as claimed): for every non-empty format text containing "no cap" or
\* "win by 2", in any letter case and with any other content,
\* parse_format_text(text).point_cap is null.
C14_NoCapPhraseGivesNull ==
    (fmt_result # None /\ Len(text) > 0 /\ SaysNoCap(text)) =>
        fmt_result[1].point_cap = None

\* the N of the first "best of N" of the text, 0 when there is none
BestOfN(t) ==
    LET hits == { i \in WordsAt(t, <<"best", "of">>) : IsNum(W(t, i + 2)) }
    IN IF hits = {} THEN 0 ELSE Num(W(t, First(hits) + 2))

\* C15 (as claimed): for every text matching "best of N" with N odd and
\* N >= 3, parse_format_text(text).sets_to_win = (N // 2) + 1.
C15_BestOfNSetsToWin ==
    (fmt_result # None /\ BestOfN(text) >= 3 /\ BestOfN(text) % 2 = 1) =>
        fmt_result[1].sets_to_win = (BestOfN(text) \div 2) + 1

\* the N of the first "N point cap" of the text, 0 when there is none
PointCapN(t) ==
    LET hits == { i \in 1..Len(t) : /\ IsNum(W(t, i))
                                    /\ W(LowerText(t), i + 1) = "point"
                                    /\ W(LowerText(t), i + 2) = "cap" }
    IN IF hits = {} THEN 0 ELSE Num(W(t, First(hits)))

\* C16 (as claimed): a format text that states the cap as "N point cap" and
\* holds no "no cap" or "win by 2" phrase parses to point_cap = N.
C16_PointCapForm ==
    (fmt_result # None /\ PointCapN(text) > 0 /\ ~SaysNoCap(text)) =>
        fmt_result[1].point_cap = Some(PointCapN(text))

(***************************************************************************)
(* Properties of parse_vbl_url                                             *)
(***************************************************************************)
\* C17 (as claimed): parse_vbl_url returns null exactly when no
\* /division/{digits} id can be extracted from the URL; otherwise is_bracket
\* holds iff the URL contains "bracket" or "playoff" in any letter case,
\* is_pool iff it does not and contains "pool", never both, and pool_id is
\* non-null only when is_pool holds and a /pools/{digits} segment is present.
C17_UrlClassification ==
    op = "scan" =>
        LET r == parse_vbl_url(url)
            lower == Lower(url)
            hasBracket == Contains(lower, "bracket") \/ Contains(lower, "playoff")
        IN /\ r = None <=> SearchId(url, "/division/") = None
           /\ r # None =>
                 /\ r[1].is_bracket <=> hasBracket
                 /\ r[1].is_pool <=> (~hasBracket /\ Contains(lower, "pool"))
                 /\ ~(r[1].is_bracket /\ r[1].is_pool)
                 /\ r[1].pool_id # None =>
                        r[1].is_pool /\ SearchId(url, "/pools/") # None

(***************************************************************************)
(* Properties of _format_time and _format_date                             *)
(***************************************************************************)
\* the display time the specification gives for hour h and minute m
DisplayTime(h, m) ==
    ToString(IF h % 12 = 0 THEN 12 ELSE h % 12) \o ":"
    \o (IF m < 10 THEN "0" ELSE "") \o ToString(m)
    \o (IF h < 12 THEN "AM" ELSE "PM")

\* C18: a valid ISO timestamp of hour h and minute m is shown as "H:MM"
\* followed by AM or PM without a space, H being 12 when h mod 12 = 0 and
\* h mod 12 otherwise, MM two digits, AM iff h < 12; a missing, null or
\* unparseable timestamp gives null for both start_time and start_date.
C18_TimeFormatted ==
    (day \in TimeDays /\ extracted # None /\ Len(extracted[1].matches) = 1) =>
        LET raw == day.brackets[1].matches[1]
            rec == extracted[1].matches[1]
        IN /\ \A h \in StampHours, m \in StampMinutes, z \in StampTails :
                  (HasKey(raw, "startTime") /\ raw.startTime = Stamp(9, h, m) \o z)
                      => rec.start_time = Some(DisplayTime(h, m))
           /\ (HasKey(raw, "startTime") /\ raw.startTime = Stamp(10, 9, 0) \o "-05:00")
                  => rec.start_time = Some("9:00AM")
           /\ (~HasKey(raw, "startTime") \/ raw.startTime \in InvalidStamps)
                  => rec.start_time = None /\ rec.start_date = None

\* C18 witness: a match that starts at 12:05 UTC has been extracted and is
\* shown as "12:05PM"
C18_Witness ==
    /\ op \in {"bracket", "pool"}
    /\ day \in TimeDays
    /\ HasKey(day.brackets[1].matches[1], "startTime")
    /\ day.brackets[1].matches[1].startTime = Stamp(9, 12, 5) \o "Z"
    /\ extracted # None
    /\ Len(extracted[1].matches) = 1
    /\ extracted[1].matches[1].start_time = Some("12:05PM")

(***************************************************************************)
(* Properties of VBLMatch                                                  *)
(***************************************************************************)
\* the keys test_to_dict_all_fields_present expects
SerializedKeys ==
    {"index", "match_number", "team1", "team2", "team1_seed", "team2_seed",
     "court", "startTime", "startDate", "api_url", "match_type", "type_detail",
     "setsToWin", "pointsPerSet", "pointCap", "formatText",
     "team1_score", "team2_score"}

\* the defaults test_default_values expects of VBLMatch(index=0)
HasDefaults(m) ==
    /\ {"sets_to_win", "points_per_set", "point_cap", "team1_score", "team2_score"}
           \subseteq DOMAIN m
    /\ m.sets_to_win = 2 /\ m.points_per_set = 21 /\ m.point_cap = None
    /\ m.team1_score = 0 /\ m.team2_score = 0

\* C19 (as claimed): to_dict() of every record has exactly the eighteen
\* keys index .. team2_score, and a record built with only an index has
\* sets_to_win 2, points_per_set 21, point_cap null and both scores 0; stated
\* of the records scan_all returns, which the page scrapers build from an
\* index alone.
C19_SerializedKeysAndDefaults ==
    parallelResult # None =>
        \A i \in 1..Len(parallelResult[1].results) :
            \A k \in 1..Len(parallelResult[1].results[i].matches) :
                LET m == parallelResult[1].results[i].matches[k]
                IN /\ DOMAIN to_dict(m) = SerializedKeys
                   /\ m = VBLMatch(m.index) => HasDefaults(m)

(***************************************************************************)
(* Properties of the scoring format of pool records                        *)
(***************************************************************************)
\* the first match of a pool that the extractor processes (non-zero id)
FirstProcessed(pool) == SelectSeq(Get(pool, "matches", <<>>), HasRealId)[1]

\* the scoring format derived from the games list of a raw pool match
PoolFormatOf(match) ==
    LET games == Get(match, "games", <<>>)
    IN FormatOf(games)
       @@ [format_text |-> _build_format_text(PoolGameSettings(games), Len(games))]

WinnersGameSettings(d) ==
    Get(Get(d.brackets[1], "winnersMatchSettings", EmptyDict), "gameSettings", <<>>)

IsKept(card) == ~card.raises /\ (Truthy(card.team1) \/ Truthy(card.api_url))

\* the unordered pair of team names of a card or record; a missing name and
\* an empty name are the same "no name"
PairOf(m) == {OrEmpty(m.team1), OrEmpty(m.team2)}

\* the positions of a list that hold the first card with their pair
FirstOfPair(kept) ==
    { i \in 1..Len(kept) : \A j \in 1..(i - 1) : PairOf(kept[j]) # PairOf(kept[i]) }

\* the k-th smallest element of a set of positions
NthOf(S, k) == CHOOSE i \in S : Cardinality({ j \in S : j < i }) = k - 1

\* C22: the deduplication keeps, for every unordered team pair, exactly the
\* first record with that pair and removes every later one, in the order of
\* the kept records; no two records of the result have the same pair.
C22_DedupKeepsFirstOfPair ==
    (op = "pool_page" /\ Len(cards) > 0) =>
        LET kept == SelectSeq(cards, IsKept)
            firsts == FirstOfPair(kept)
            res == page_result[1].matches
        IN /\ Len(res) = Cardinality(firsts)
           /\ \A k \in 1..Len(res) :
                  /\ res[k].team1 = kept[NthOf(firsts, k)].team1
                  /\ res[k].team2 = kept[NthOf(firsts, k)].team2
                  /\ res[k].api_url = kept[NthOf(firsts, k)].api_url
           /\ \A k, l \in 1..Len(res) : PairOf(res[k]) = PairOf(res[l]) => k = l

\* C22 witness: a page showing a match, the same match with its sides
\* swapped and a match of other teams has been scanned, and two records are
\* left
C22_Witness ==
    /\ op = "pool_page"
    /\ Len(cards) = 3
    /\ \A i \in 1..3 : IsKept(cards[i])
    /\ PairOf(cards[1]) = PairOf(cards[2])
    /\ cards[1].team1 = cards[2].team2
    /\ cards[1].team1 # cards[1].team2
    /\ PairOf(cards[3]) # PairOf(cards[1])
    /\ Len(page_result[1].matches) = 2
    /\ page_result[1].matches[2].team1 = cards[3].team1

\* two cards of one page describe different matches
DifferentMatches(a, b) ==
    \/ a.api_url # None /\ b.api_url # None /\ a.api_url # b.api_url
    \/ a.match_number # b.match_number

\* C23 (as claimed): the deduplication removes a record only when it is a
\* true duplicate of an earlier kept record: of two kept cards that describe
\* different matches (distinct non-null api_url or distinct match_number),
\* nameless ones included, both are in the result.
C23_DedupOnlyTrueDuplicates ==
    (op = "pool_page" /\ Len(cards) > 0) =>
        LET res == page_result[1].matches
            InResult(i) == \E k \in 1..Len(res) : res[k].index = i - 1
        IN \A i, j \in 1..Len(cards) :
               (i < j /\ IsKept(cards[i]) /\ IsKept(cards[j])
                      /\ DifferentMatches(cards[i], cards[j]))
                   => (InResult(i) => InResult(j))

(***************************************************************************)
(* Properties of the semaphore of scan_all                                 *)
(***************************************************************************)
\* C24: during scan_all at most max_concurrent single-URL scans are in
\* progress at every moment, for every number of URLs and every interleaving
\* of their starts and completions.
C24_AtMostMaxConcurrent == Cardinality(Running) <= max_concurrent

\* C24 witness: with three URLs and max_concurrent 2, two scans are in
\* progress and the third task waits for the semaphore
C24_Witness ==
    /\ phase = "gather"
    /\ Len(tasks) = 3
    /\ max_concurrent = 2
    /\ Cardinality(Running) = 2
    /\ \E i \in 1..Len(tasks) : tasks[i].pc = "waiting"

(***************************************************************************)
(* Properties of the bare "N sets" rule                                    *)
(***************************************************************************)
\* the positions of a bare "N set(s)" in the text
BareSets(t) ==
    { i \in 1..Len(t) : IsNum(W(t, i)) /\ StartsWith(W(LowerText(t), i + 1), "set") }

\* C25 (as claimed): for a format text with no "1 game", "match play" or
\* "best ..." phrase that contains a bare "N set(s)", sets_to_win is N when
\* N <= 2 and (N // 2) + 1 when N >= 3 (3 sets gives 2, 5 sets gives 3).
C25_BareSetsRule ==
    (/\ fmt_result # None
     /\ ~HasWords(text, <<"1", "game">>)
     /\ ~HasWords(text, <<"match", "play">>)
     /\ ~HasWords(text, <<"best">>)
     /\ BareSets(text) # {}) =>
        LET n == Num(W(text, First(BareSets(text))))
        IN fmt_result[1].sets_to_win = IF n <= 2 THEN n ELSE (n \div 2) + 1

(***************************************************************************)
(* Properties of the day selection of scan_via_api                         *)
(***************************************************************************)
\* the api_url values a raw match list can give, bracket or pool
UrlsOf(raws, bracket) ==
    { IF bracket THEN BracketApiUrl(raws[k].id) ELSE PoolApiUrl(raws[k].id) :
          k \in { j \in 1..Len(raws) : HasRealId(raws[j]) } }

IsBracketRecord(m) == m.match_type = "Bracket Play"
IsPoolRecord(m) == m.match_type = "Pool Play"

C27_ClassifiersAgree ==
    (op = "scan" /\ parse_vbl_url(url) # None) =>
        LET is_pool == parse_vbl_url(url)[1].is_pool
        IN /\ is_pool <=> _detect_scraper_type(url) = "PoolScraper"
           /\ is_pool <=> SequentialScraperType(url) = "PoolScraper"
           /\ is_pool <=> determine_url_type(url)[1] = "Pool Play"

C29_ScanAllNeverBlocked ==
    phase \in {"scan_all", "gather"} => ENABLED NextParallel

(***************************************************************************)
(* Properties of the placeholder fallback of the match card                *)
(***************************************************************************)
\* a name read from a name cell that is non-empty and not "TBD"
IsRealName(name) == name # "" /\ Lower(name) # "tbd"

\* C30 (as claimed): _extract_card_data never replaces a real team name read
\* from the card's name cells with placeholder text: a side whose cell holds
\* a real name keeps that name, for team1 and for team2.
C30_RealNameKept ==
    (op = "card" /\ ~overlay.raises) =>
        /\ (Len(overlay.name_cells) >= 1 /\ IsRealName(overlay.name_cells[1]))
               => card_match[1].team1 = Some(overlay.name_cells[1])
        /\ (Len(overlay.name_cells) >= 2 /\ IsRealName(overlay.name_cells[2]))
               => card_match[1].team2 = Some(overlay.name_cells[2])

====
